---------------------------- MODULE Spec2Model ----------------------------
(***************************************************************************)
(* Model of the pmac_motorhome converter: the post-home translation        *)
(* (MotionArea.handle_post) and the code generator (MotionArea.make_code)  *)
(* over the captured PLC -> Group -> Motor registry; the Motor class of    *)
(* dls_motorhome; the in-process harness converter.file; and the           *)
(* orchestration of MotionArea.make_new_motion with the children it        *)
(* spawns; and the working copies of a motion area with copytree,          *)
(* _remove_homing_plcs and check_matches.  Each component has a            *)
(* specification of its own.                                               *)
(*                                                                         *)
(* Text is a sequence of atoms.  Data that comes from the legacy script    *)
(* (post tokens, pre text, names) is held one character per atom; the      *)
(* literal pieces of the generator's format strings are whole atoms.       *)
(* The bytes of a text are the concatenation of its atoms.                 *)
(***************************************************************************)
EXTENDS Integers, Sequences, FiniteSets, TLC

VARIABLES
    post_in,      \* handle_post: the token it was last called with
    post_out,     \* handle_post: the tuple it returned
    post_called,  \* handle_post has been called
    instances,    \* PLC.instances, the process-wide registry
    motor_count,  \* number of shim motors created so far in the process
    outfile,      \* the chunks written to outpath by make_code, in order
    pc,           \* "capture" | "generated" | "regenerated"
    Motor_instances,  \* dls_motorhome Motor.instances, in creation order
    Motor_args,       \* the arguments of each Motor(...) call so far, in order
    names,        \* converter.file: its names argument, then the local names
    filetext,     \* converter.file: the text of the legacy script
    module,       \* converter.file: "None" or "module", the local module
    sys_argv,     \* sys.argv of the converting process
    executed,     \* each run of the script's top-level code: how, argv, outcome
    file_pc,      \* converter.file: "start" | "loop" | "done" | "raised"
    names_iter,   \* converter.file: how many names the for loop has taken
    nm_pc,        \* make_new_motion: where it is
    root_gen_exists,  \* configure/generate_homing_plcs.py exists at the root
    generators,   \* the legacy scripts in turn, each with its plc_files
    gen_iter,     \* make_new_motion: generators finished so far
    plc_iter,     \* make_new_motion: plc_files of this generator finished
    fifo,         \* the named pipe of this generator: state and messages
    process,      \* the spawned child: state, script, target, returncode
    alive,        \* the spawned children that have not exited yet
    trace,        \* what make_new_motion has done so far, in order
    emitted,      \* the new script make_code wrote for each generator
    fs,           \* the files of original_path, old_motion and new_motion
    copy_failed,  \* copytree: the in_files whose copy raised, last call
    copy_new_gen, \* MotionArea.copy_new_gen
    copy_old_gen, \* MotionArea.copy_old_gen
    area_pc,      \* make_old_motion, make_new_motion, check_matches: where
    cm,           \* check_matches: plcs, count, mismatches, mismatch
    log,          \* what check_matches has logged so far, in order
    child_io      \* the spawned child's output: left to write, held in the pipes

post_vars == <<post_in, post_out, post_called>>
gen_vars == <<instances, motor_count, outfile, pc>>
motor_vars == <<Motor_instances, Motor_args>>
file_vars == <<names, filetext, module, sys_argv, executed, file_pc, names_iter>>
vars == <<post_in, post_out, post_called, instances, motor_count, outfile, pc,
          Motor_instances, Motor_args,
          names, filetext, module, sys_argv, executed, file_pc, names_iter,
          nm_pc, root_gen_exists, generators, gen_iter, plc_iter, fifo, process,
          alive, trace, emitted,
          fs, copy_failed, copy_new_gen, copy_old_gen, area_pc, cm, log,
          child_io>>
nm_vars == <<nm_pc, root_gen_exists, generators, gen_iter, plc_iter, fifo, process,
             alive, trace, emitted, child_io>>
copy_gen_vars == <<copy_new_gen, copy_old_gen>>
area_vars == <<fs, copy_failed, area_pc, cm, log>>
\* what each component leaves alone
not_post_vars == <<gen_vars, motor_vars, file_vars, nm_vars, copy_gen_vars, area_vars>>
not_gen_vars == <<post_vars, motor_vars, file_vars, nm_vars, copy_gen_vars, area_vars>>
not_motor_vars == <<post_vars, gen_vars, file_vars, nm_vars, copy_gen_vars, area_vars>>
not_file_vars == <<post_vars, gen_vars, motor_vars, nm_vars, copy_gen_vars, area_vars>>
not_area_vars == <<post_vars, gen_vars, motor_vars, file_vars, nm_vars>>
\* converter.file runs the script in its own process, under the shim
not_file_registry_vars ==
    <<post_vars, motor_count, outfile, pc, motor_vars, nm_vars, copy_gen_vars,
      area_vars>>
\* make_new_motion works on PLC.instances and on nothing else of the others
not_nm_vars ==
    <<post_vars, motor_count, outfile, pc, motor_vars, file_vars, area_vars>>

-----------------------------------------------------------------------------
(* Bounds *)

\* longest post token string handed to handle_post
MaxTokLen == 3
\* largest magnitude of a numeric post token
MaxNum == 2
\* PLCs + groups + motors captured in one run
MaxObjects == 4
\* Motor objects constructed in one process
MaxMotors == 3
\* largest axis number a Motor is constructed with
MaxAxis == 8
\* Motor objects constructed in one process that defines PLC after PLC
MaxManyMotors == 17
\* longest list of names handed to converter.file
MaxNames == 2
\* longest legacy script text, in atoms, scanned for names
MaxTextLen == 4
\* most homing PLC files one generator is run for
MaxTargets == 2
\* what a pipe holds before a write to it blocks, in blocks
PipeCapacity == 2
\* most blocks a child prints, and most blocks of its pickled message
MaxOutput == 3

-----------------------------------------------------------------------------
(* Text helpers *)

Digits == <<"0", "1", "2", "3", "4", "5", "6", "7", "8", "9">>

IsDigit(c) == \E i \in 1..10 : Digits[i] = c

RECURSIVE NatStr(_)
NatStr(n) ==
    IF n < 10 THEN <<Digits[n + 1]>>
    ELSE NatStr(n \div 10) \o <<Digits[(n % 10) + 1]>>

\* str() / format() of a python int
IntStr(i) == IF i < 0 THEN <<"-">> \o NatStr(-i) ELSE NatStr(i)

\* the characters of the model, in code point order
Ascii ==
    <<"\t", " ", "-", "0", "1", "2", "3", "4", "5", "6", "7", "8", "9",
      "H", "L", "N", "_", "a", "b", "c", "d", "e", "f", "g", "h", "i", "j",
      "k", "l", "m", "n", "o", "p", "q", "r", "s", "t", "u", "v", "w", "x",
      "y", "z">>

Ord(c) == CHOOSE i \in 1..Len(Ascii) : Ascii[i] = c

\* python's < on two strings
RECURSIVE StrLess(_, _)
StrLess(a, b) ==
    IF b = <<>> THEN FALSE
    ELSE IF a = <<>> THEN TRUE
    ELSE IF Head(a) = Head(b) THEN StrLess(Tail(a), Tail(b))
    ELSE Ord(Head(a)) < Ord(Head(b))

RECURSIVE Concat(_)
Concat(ss) == IF ss = <<>> THEN <<>> ELSE Head(ss) \o Concat(Tail(ss))

-----------------------------------------------------------------------------
(* Post tokens: the python values a legacy script passes as "post" *)

NoneTok == [k |-> "None", neg |-> FALSE, w |-> 0, f |-> 0, s |-> <<>>]
IntTok(i) ==
    [k |-> "int", neg |-> i < 0, w |-> IF i < 0 THEN -i ELSE i, f |-> 0,
     s |-> <<>>]
\* the float (-1)^neg * (w + f/10)
FloatTok(neg, w, f) == [k |-> "float", neg |-> neg, w |-> w, f |-> f, s |-> <<>>]
StrTok(s) == [k |-> "str", neg |-> FALSE, w |-> 0, f |-> 0, s |-> s]

\* str(post)
PyStr(post) ==
    CASE post.k = "None" -> <<"N", "o", "n", "e">>
      [] post.k = "int" -> (IF post.neg THEN <<"-">> ELSE <<>>) \o NatStr(post.w)
      [] post.k = "float" ->
            (IF post.neg THEN <<"-">> ELSE <<>>) \o NatStr(post.w) \o <<".">>
                \o <<Digits[post.f + 1]>>
      [] post.k = "str" -> post.s

\* post == "<c>" for a one-character string literal
EqStr(post, c) == post.k = "str" /\ post.s = <<c>>

-----------------------------------------------------------------------------
(* MotionArea.handle_post *)

\* faulty variant: only None is taken as "no post action"
no_post_action_none_only(post) == post.k = "None"

\* post in (None, 0, "0"): python's in compares with ==, and 0 == 0.0
no_post_action(post) ==
    \/ post.k = "None"
    \/ post.k \in {"int", "float"} /\ post.w = 0 /\ post.f = 0
    \/ EqStr(post, "0")

\* re.compile(r"^<c>(-?\d+)").match(text): a match anchored at the start
post_move_match(c, text) ==
    /\ Len(text) >= 2
    /\ text[1] = c
    /\ \/ IsDigit(text[2])
       \/ text[2] = "-" /\ Len(text) >= 3 /\ IsDigit(text[3])

\* post_type[1:]
post_distance_text(post_type) == Tail(post_type)

PostHome(action) == <<", post_home=PostHomeMove.", action>>
PostDistance(dist) == <<", post_distance=">> \o dist

PostResult(post_code, extra_args, post_type) ==
    [post_code |-> post_code, extra_args |-> extra_args, post_type |-> post_type]

handle_post(post) ==
    LET post_type == PyStr(post) IN
    IF no_post_action(post) THEN PostResult(<<>>, <<>>, post_type)
    ELSE IF EqStr(post, "i") THEN
        PostResult(<<>>, PostHome("initial_position"), post_type)
    ELSE IF EqStr(post, "h") THEN
        PostResult(<<>>, PostHome("high_limit"), post_type)
    ELSE IF EqStr(post, "l") THEN
        PostResult(<<>>, PostHome("low_limit"), post_type)
    ELSE IF EqStr(post, "H") THEN
        PostResult(<<>>, PostHome("hard_hi_limit"), post_type)
    ELSE IF EqStr(post, "L") THEN
        PostResult(<<>>, PostHome("hard_lo_limit"), post_type)
    ELSE IF post_move_match("r", post_type) THEN
        PostResult(<<>>,
                   PostHome("relative_move")
                       \o PostDistance(post_distance_text(post_type)),
                   post_type)
    ELSE IF post_move_match("z", post_type) THEN
        PostResult(<<>>,
                   PostHome("move_and_hmz")
                       \o PostDistance(post_distance_text(post_type)),
                   post_type)
    ELSE IF post.k \in {"int", "float"} THEN
        PostResult(<<>>,
                   PostHome("move_absolute") \o PostDistance(PyStr(post)),
                   PyStr(post))
    ELSE PostResult(post.s, <<>>, <<"N", "o", "n", "e">>)

-----------------------------------------------------------------------------
(* The tokens handle_post is called with *)

PostAlphabet == {"r", "z", "i", "h", "l", "H", "L", "-", "0", "1", "x", "\t"}

PostStrings == UNION {[1..n -> PostAlphabet] : n \in 0..MaxTokLen}

PostTokens ==
    {NoneTok}
        \cup {IntTok(i) : i \in -MaxNum..MaxNum}
        \cup {FloatTok(neg, w, f) : neg \in BOOLEAN, w \in 0..MaxNum, f \in {0, 5}}
        \cup {StrTok(s) : s \in PostStrings}

\* one call of handle_post
HandlePostCall ==
    /\ ~post_called
    /\ post_out' = handle_post(post_in)
    /\ post_called' = TRUE
    /\ UNCHANGED post_in
    /\ UNCHANGED not_post_vars

-----------------------------------------------------------------------------
(* The capture object model (converter.shim): PLC -> groups -> motors *)

Chars_home_hsw == <<"h", "o", "m", "e", "_", "h", "s", "w">>
Chars_home_limit == <<"h", "o", "m", "e", "_", "l", "i", "m", "i", "t">>

\* group.sequence: the homing routine, its name and its legacy display name
HomingSequences ==
    [hsw |-> [name |-> Chars_home_hsw, old_name |-> <<"H", "S", "W">>],
     limit |-> [name |-> Chars_home_limit,
                old_name |-> <<"L", "I", "M", "I", "T">>]]

DefaultTimeout == 600000

\* the plc(...) declarations a legacy script may make
PlcDecls ==
    {[plc |-> 12, bricktype |-> <<"ControllerType.brick">>,
      filename |-> <<"PLCs/PLC12_A_HM.pmc">>, timeout |-> DefaultTimeout],
     [plc |-> 11, bricktype |-> <<"ControllerType.pmac">>,
      filename |-> <<"PLCs/PLC11_B_HM.pmc">>, timeout |-> 1000]}

GroupNums == {1, 2, 3}
\* the group(...) declarations a legacy script may make, less the number
GroupDecls ==
    {[post |-> NoneTok, pre |-> <<>>, sequence |-> "hsw"],
     [post |-> StrTok(<<"i">>), pre |-> <<>>, sequence |-> "limit"],
     [post |-> StrTok(<<"x", "\t">>), pre |-> <<>>, sequence |-> "hsw"],
     [post |-> NoneTok, pre |-> <<"\t", "x">>, sequence |-> "limit"]}
MotorPosts == {StrTok(<<"r", "1">>), StrTok(<<"x", "\t">>)}
MotorDecls == {[axis |-> 1, jdist |-> 1000]}

Last(seq) == seq[Len(seq)]
Range(seq) == {seq[i] : i \in 1..Len(seq)}

RECURSIVE SumLen(_)
SumLen(ss) == IF ss = <<>> THEN 0 ELSE Len(Head(ss)) + SumLen(Tail(ss))

GroupCount == SumLen([i \in 1..Len(instances) |-> instances[i].groups])
ObjectCount == Len(instances) + GroupCount + motor_count

\* plc.groups.keys()
GroupKeys(plc) == {plc.groups[i].group_num : i \in 1..Len(plc.groups)}

\* plc.groups[group_num]
GroupAt(plc, group_num) ==
    plc.groups[CHOOSE i \in 1..Len(plc.groups) :
                   plc.groups[i].group_num = group_num]

\* shim plc(...): a new PLC is appended to PLC.instances
OpenPLC ==
    /\ pc = "capture"
    /\ ObjectCount < MaxObjects
    /\ \E d \in PlcDecls :
        instances' = Append(instances,
            [plc |-> d.plc, bricktype |-> d.bricktype, filename |-> d.filename,
             timeout |-> d.timeout, groups |-> <<>>])
    /\ UNCHANGED <<motor_count, outfile, pc>>
    /\ UNCHANGED not_gen_vars

\* shim group(...) with its homing sequence: plc.groups[group_num] = group
OpenGroup ==
    /\ pc = "capture"
    /\ ObjectCount < MaxObjects
    /\ instances # <<>>
    /\ \E n \in GroupNums \ GroupKeys(Last(instances)), d \in GroupDecls :
        instances' = [instances EXCEPT ![Len(instances)].groups =
            Append(@, [group_num |-> n, post |-> d.post, pre |-> d.pre,
                       sequence |-> HomingSequences[d.sequence],
                       motors |-> <<>>])]
    /\ UNCHANGED <<motor_count, outfile, pc>>
    /\ UNCHANGED not_gen_vars

\* shim motor(...): appended to the open group, index from the process counter
DeclareMotor ==
    /\ pc = "capture"
    /\ ObjectCount < MaxObjects
    /\ instances # <<>>
    /\ Last(instances).groups # <<>>
    /\ \E d \in MotorDecls, post \in MotorPosts :
        LET p == Len(instances)
            g == Len(instances[p].groups)
        IN  instances' = [instances EXCEPT ![p].groups[g].motors =
                Append(@, [axis |-> d.axis, jdist |-> d.jdist,
                           index |-> motor_count, post |-> post])]
    /\ motor_count' = motor_count + 1
    /\ UNCHANGED <<outfile, pc>>
    /\ UNCHANGED not_gen_vars

-----------------------------------------------------------------------------
(* MotionArea.make_code *)

\* Indenter.format_text
format_text(level, text) == [i \in 1..level |-> "    "] \o text \o <<"\n">>

\* bytes.strip(): leading and trailing whitespace removed
IsSpace(c) == c \in {" ", "\t", "\n"}
RECURSIVE LStrip(_)
LStrip(text) ==
    IF text # <<>> /\ IsSpace(Head(text)) THEN LStrip(Tail(text)) ELSE text
RECURSIVE RStrip(_)
RStrip(text) ==
    IF text # <<>> /\ IsSpace(Last(text))
    THEN RStrip(SubSeq(text, 1, Len(text) - 1))
    ELSE text
Strip(text) == RStrip(LStrip(text))

\* the output of "which python"
WhichPython == <<"/usr/bin/python", "\n">>

\* faulty variant: the output of "which python" is used as it is
get_shebang_unstripped == <<"#!/bin/env ">> \o WhichPython

get_shebang == <<"#!/bin/env ">> \o Strip(WhichPython)

\* faulty variant: tabs are left as they are
tab_sub_identity(text) == text

\* re.sub("\t", "    ", text)
tab_sub(text) == [i \in 1..Len(text) |-> IF text[i] = "\t" THEN "    " ELSE text[i]]

\* sorted() of a set of integers
RECURSIVE SortedInts(_)
SortedInts(S) ==
    IF S = {} THEN <<>>
    ELSE LET m == CHOOSE x \in S : \A y \in S : x <= y
         IN  <<m>> \o SortedInts(S \ {m})

\* sorted() of a set of strings
RECURSIVE SortedStrs(_)
SortedStrs(S) ==
    IF S = {} THEN <<>>
    ELSE LET m == CHOOSE x \in S : \A y \in S : x = y \/ StrLess(x, y)
         IN  <<m>> \o SortedStrs(S \ {m})

\* ", ".join(strs)
RECURSIVE Join(_)
Join(strs) ==
    IF strs = <<>> THEN <<>>
    ELSE IF Len(strs) = 1 THEN Head(strs)
    ELSE Head(strs) \o <<", ">> \o Join(Tail(strs))

\* the set of sequence names used by the groups of the PLCs
import_names(plcs) ==
    UNION {{plcs[p].groups[g].sequence.name : g \in 1..Len(plcs[p].groups)} :
              p \in 1..Len(plcs)}

\* faulty variant: one name per group, in the order the groups are met
import_order_unsorted(plcs) ==
    Concat([p \in 1..Len(plcs) |->
               [g \in 1..Len(plcs[p].groups) |-> plcs[p].groups[g].sequence.name]])

\* the import names in the order they are written
import_order(plcs) == SortedStrs(import_names(plcs))

import_chunks(plcs) ==
    IF import_names(plcs) # {}
    THEN <<format_text(0, <<"from pmac_motorhome.sequences import ">>
                              \o Join(import_order(plcs)))>>
    ELSE <<>>

\* faulty variant: the timeout argument is always written
timeout_chunks_always(plc) ==
    <<format_text(1, <<"timeout=">> \o IntStr(plc.timeout))>>

\* the timeout argument of a plc block
timeout_chunks(plc) ==
    IF plc.timeout # DefaultTimeout
    THEN <<format_text(1, <<"timeout=">> \o IntStr(plc.timeout))>>
    ELSE <<>>

plc_header(plc) ==
    <<format_text(0, <<"with plc(">>),
      format_text(1, <<"plc_num=">> \o IntStr(plc.plc) \o <<",">>),
      format_text(1, <<"controller=">> \o plc.bricktype \o <<",">>),
      format_text(1, <<"filepath=\"">> \o plc.filename \o <<"\",">>)>>
        \o timeout_chunks(plc)
        \o <<format_text(0, <<"):">>)>>

\* faulty variant: the groups in the order they were inserted
group_order_inserted(plc) == [i \in 1..Len(plc.groups) |-> plc.groups[i].group_num]

\* for group_num in sorted(plc.groups.keys())
group_order(plc) == SortedInts(GroupKeys(plc))

\* the pre<n> text block of a group
pre_chunks(group_num, group) ==
    IF group.pre # <<>>
    THEN <<format_text(1, <<"pre">> \o IntStr(group_num) \o <<" = ", "\"\"\"">>
                              \o tab_sub(group.pre) \o <<" ", "\"\"\"">>),
           format_text(0, <<>>)>>
    ELSE <<>>

\* the post<n> raw code block of a group
post_chunks(group_num, post_code) ==
    IF post_code # <<>>
    THEN <<format_text(1, <<"post">> \o IntStr(group_num) \o <<" = ", "\"\"\"">>
                              \o tab_sub(post_code) \o <<" ", "\"\"\"">>),
           format_text(0, <<>>)>>
    ELSE <<>>

\* extra_args of the group construct
group_extra_args(group_num, group) ==
    handle_post(group.post).extra_args
        \o (IF group.pre # <<>>
            THEN <<", pre=pre">> \o IntStr(group_num) ELSE <<>>)
        \o (IF handle_post(group.post).post_code # <<>>
            THEN <<", post=post">> \o IntStr(group_num) ELSE <<>>)

group_line(group_num, group) ==
    format_text(1, <<"with group(group_num=">> \o IntStr(group.group_num)
                       \o group_extra_args(group_num, group) \o <<"):">>)

\* faulty variant: the motor line takes the extra_args of the group's token
motor_line_group_post(group, motor) ==
    format_text(2, <<"motor(axis=">> \o IntStr(motor.axis)
                       \o <<", jdist=">> \o IntStr(motor.jdist)
                       \o <<", index=">> \o IntStr(motor.index)
                       \o handle_post(group.post).extra_args \o <<")">>)

\* the motor's own post token gives the extra_args of its line
motor_line(group, motor) ==
    format_text(2, <<"motor(axis=">> \o IntStr(motor.axis)
                       \o <<", jdist=">> \o IntStr(motor.jdist)
                       \o <<", index=">> \o IntStr(motor.index)
                       \o handle_post(motor.post).extra_args \o <<")">>)

\* post_type when the comment is written: the motor loop assigns it too
comment_post_type(group) ==
    IF group.motors = <<>> THEN handle_post(group.post).post_type
    ELSE handle_post(Last(group.motors).post).post_type

comment_line(group) ==
    format_text(2, <<"comment(\"">> \o group.sequence.old_name \o <<"\", \"">>
                       \o comment_post_type(group) \o <<"\")">>)

sequence_line(group) == format_text(2, group.sequence.name \o <<"()">>)

group_chunks(group_num, group) ==
    pre_chunks(group_num, group)
        \o post_chunks(group_num, handle_post(group.post).post_code)
        \o <<group_line(group_num, group)>>
        \o [m \in 1..Len(group.motors) |-> motor_line(group, group.motors[m])]
        \o <<comment_line(group), sequence_line(group), format_text(0, <<>>)>>

plc_chunks(plc) ==
    plc_header(plc)
        \o Concat([i \in 1..Len(group_order(plc)) |->
                      group_chunks(group_order(plc)[i],
                                   GroupAt(plc, group_order(plc)[i]))])

\* everything make_code writes to the stream, one chunk per write
make_code_text(plcs) ==
    <<format_text(0, get_shebang),
      format_text(0, <<"from pmac_motorhome.commands import ControllerType, ",
                       "PostHomeMove, comment, group, motor, plc">>)>>
        \o import_chunks(plcs)
        \o <<format_text(0, <<>>)>>
        \o Concat([p \in 1..Len(plcs) |-> plc_chunks(plcs[p])])
        \o <<format_text(0, <<"# End of auto converted homing ",
                              "definitions">>)>>

\* faulty variant: the file is opened for appending
open_a(old, written) == old \o written

\* outpath.open("w"): the file is truncated, then holds what is written
open_w(old, written) == written

\* make_code(outpath): plcs = list(PLC.get_instances()), rendered to outpath
make_code ==
    /\ outfile' = open_w(outfile, make_code_text(instances))
    /\ pc' = IF pc = "capture" THEN "generated" ELSE "regenerated"
    /\ UNCHANGED <<instances, motor_count>>
    /\ UNCHANGED not_gen_vars

-----------------------------------------------------------------------------
(* dls_motorhome.motor.Motor *)

\* int(a / b) for b > 0: true division, then truncation towards zero
TruncDiv(a, b) == IF a >= 0 THEN a \div b ELSE -((-a) \div b)

\* "{:02}".format(n) for n >= 0
ZeroPad2(n) == IF Len(NatStr(n)) < 2 THEN <<"0">> \o NatStr(n) ELSE NatStr(n)

\* faulty variant: the bank is taken from axis, not axis - 1
nx_value_axis_bank(axis) == TruncDiv(axis, 4) * 10 + (((axis - 1) % 4) + 1)

\* faulty variant: the bank is left out
nx_value_no_bank(axis) == ((axis - 1) % 4) + 1

\* Motor.nx before formatting
nx_value(axis) == TruncDiv(axis - 1, 4) * 10 + (((axis - 1) % 4) + 1)

\* Motor.nx
nx(axis) == ZeroPad2(nx_value(axis))

\* faulty variant: two fields share a base
PVARS_overlapping ==
    [hi_lim |-> 4, lo_lim |-> 20, homed |-> 36, not_homed |-> 36,
     lim_flags |-> 68, pos |-> 84]

\* Motor.PVARS
PVARS ==
    [hi_lim |-> 4, lo_lim |-> 20, homed |-> 36, not_homed |-> 52,
     lim_flags |-> 68, pos |-> 84]

\* faulty variant: the creation index is left out
pvar_no_index(plc_num, start, index) == plc_num * 100 + start

\* plc_num * 100 + start + self.index
pvar(plc_num, start, index) == plc_num * 100 + start + index

\* faulty variant: every motor of an axis shares that axis's index
len_of_axis(motors, axis) == axis - 1

\* len(self.instances)
len_instances(motors, axis) == Len(motors)

\* Motor.__init__(axis, jdist, plc_num): the object it leaves in instances
Motor(motors, axis, jdist, plc_num) ==
    LET index == len_instances(motors, axis)
    IN  [axis |-> axis, jdist |-> jdist, index |-> index, post |-> <<"None">>,
         dict |-> [axis |-> axis, index |-> index, jdist |-> jdist,
                   homed_flag |-> <<"7">> \o nx(axis) \o <<"2">>,
                   hi_lim |-> pvar(plc_num, PVARS.hi_lim, index),
                   lo_lim |-> pvar(plc_num, PVARS.lo_lim, index),
                   homed |-> pvar(plc_num, PVARS.homed, index),
                   not_homed |-> pvar(plc_num, PVARS.not_homed, index),
                   lim_flags |-> pvar(plc_num, PVARS.lim_flags, index),
                   pos |-> pvar(plc_num, PVARS.pos, index)]]

\* the arguments a Motor is constructed with
MotorAxes == 1..MaxAxis
MotorJdists == {1000}
MotorPlcNums == {11, 12}

\* Motor(axis, jdist, plc_num) is constructed and appended to Motor.instances
NewMotor ==
    /\ Len(Motor_instances) < MaxMotors
    /\ \E axis \in MotorAxes, jdist \in MotorJdists, plc_num \in MotorPlcNums :
        /\ Motor_instances' =
               Append(Motor_instances, Motor(Motor_instances, axis, jdist, plc_num))
        /\ Motor_args' =
               Append(Motor_args, [axis |-> axis, jdist |-> jdist, plc_num |-> plc_num])
    /\ UNCHANGED not_motor_vars

\* Motor(axis, jdist, plc_num) is constructed in a process that declares the
\* motors of one PLC after those of another, in ascending PLC number
NewMotorInPlcOrder ==
    /\ Len(Motor_instances) < MaxManyMotors
    /\ \E plc_num \in MotorPlcNums :
        /\ Motor_args # <<>> => Last(Motor_args).plc_num <= plc_num
        /\ Motor_instances' =
               Append(Motor_instances, Motor(Motor_instances, 1, 1000, plc_num))
        /\ Motor_args' =
               Append(Motor_args, [axis |-> 1, jdist |-> 1000, plc_num |-> plc_num])
    /\ UNCHANGED not_motor_vars

-----------------------------------------------------------------------------
(* converter.converter.file *)

\* a name is a str or a pathlib.Path (converter.motion hands over Paths)
StrName(text) == [kind |-> "str", parts |-> <<text>>]
PathName(parts) == [kind |-> "Path", parts |-> parts]

\* str(Path(...)): the parts joined by "/"
RECURSIVE PathStr(_)
PathStr(parts) ==
    IF Len(parts) <= 1 THEN Concat(parts)
    ELSE Head(parts) \o <<"/">> \o PathStr(Tail(parts))

\* str(plc_name)
py_str(name) == IF name.kind = "str" THEN name.parts[1] ELSE PathStr(name.parts)

\* the atoms of a script text: the head of a branch line, a comment sign, a
\* line end, any other character
BranchAtoms == {"if name == \"A\"", "if name == \"B\""}
BranchName(atom) == IF atom = "if name == \"A\"" THEN <<"A">> ELSE <<"B">>
TextAtoms == BranchAtoms \cup {"#", "\n", "x"}

\* ^ with re.M: the start of the text or just after a line end
AtLineStart(text, s) == s = 1 \/ text[s - 1] = "\n"

\* where [^#]*if name == "([^"]*)" started at s can end: [^#] takes line ends
MatchEnds(text, s) ==
    {q \in s..Len(text) :
        text[q] \in BranchAtoms /\ \A i \in s..(q - 1) : text[i] # "#"}

SetMin(S) == CHOOSE x \in S : \A y \in S : x <= y
SetMax(S) == CHOOSE x \in S : \A y \in S : x >= y

\* re.findall('^[^#]*if name == "([^"]*)"', text, flags=re.M) from pos on:
\* the leftmost start, the longest [^#]* there, then on from the match's end
RECURSIVE findall(_, _)
findall(text, pos) ==
    LET starts == {s \in pos..Len(text) :
                      AtLineStart(text, s) /\ MatchEnds(text, s) # {}}
    IN  IF starts = {} THEN <<>>
        ELSE LET q == SetMax(MatchEnds(text, SetMin(starts)))
             IN  <<BranchName(text[q])>> \o findall(text, q + 1)

\* [f"PLCs/PLC{i+11}_{m}_HM.pmc" for i, m in enumerate(matches)]
synthesized_names(matches) ==
    [k \in 1..Len(matches) |->
        StrName(<<"PLCs/PLC">> \o NatStr((k - 1) + 11) \o <<"_">>
                    \o matches[k] \o <<"_HM.pmc">>)]

\* names == (): only the empty tuple compares equal to ()
is_empty_tuple(value) == value.kind = "tuple" /\ value.items = <<>>

\* import_module runs the top-level code unless sys.modules has the module
import_module(mod) == [how |-> "import", runs |-> mod = "None"]
\* reload runs the top-level code of the loaded module again
reload(mod) == [how |-> "reload", runs |-> TRUE]

\* faulty variant: the module is imported for every name
load_import_always(mod) == import_module(mod)

\* if not module: import_module(module_name) else: reload(module)
load(mod) == IF mod = "None" THEN import_module(mod) ELSE reload(mod)

\* the PLC the legacy script, run under the shim for one name, leaves in
\* PLC.instances of the process that runs it
ScriptPLC(argv) ==
    [plc |-> 11, bricktype |-> <<"ControllerType.brick">>,
     filename |-> argv[2], timeout |-> DefaultTimeout, groups |-> <<>>]

\* the arguments file() is called with
TargetNames ==
    {StrName(<<"PLCs/PLC11_A_HM.pmc">>),
     PathName(<<<<"BL01">>, <<"PLCs">>, <<"PLC12_B_HM.pmc">>>>)}
NameLists == UNION {[1..n -> TargetNames] : n \in 0..MaxNames}
NamesArgs == {[kind |-> k, items |-> l] : k \in {"tuple", "list"}, l \in NameLists}
FileTexts == UNION {[1..n -> TextAtoms] : n \in 0..MaxTextLen}
FileInputs ==
    ({[kind |-> "tuple", items |-> <<>>]} \X FileTexts)
        \cup (NamesArgs \X {<<"if name == \"A\"", "\n">>})

\* file(), lines 88-102: the script is read; names are derived if names == ()
file_names ==
    /\ file_pc = "start"
    /\ names' = IF is_empty_tuple(names)
                THEN [kind |-> "list",
                      items |-> synthesized_names(findall(filetext, 1))]
                ELSE names
    /\ file_pc' = "loop"
    /\ UNCHANGED <<filetext, module, sys_argv, executed, names_iter>>
    /\ UNCHANGED not_file_vars

\* file(), lines 105-110: one turn of the loop; the script returns or raises
file_execute ==
    /\ file_pc = "loop"
    /\ names_iter < Len(names.items)
    /\ \E script_raises \in BOOLEAN :
        LET plc_name == names.items[names_iter + 1]
            argv == <<"exename", py_str(plc_name)>>
            run == load(module)
            raised == run.runs /\ script_raises
        IN  /\ sys_argv' = argv
            /\ executed' =
                   IF run.runs
                   THEN Append(executed,
                               [how |-> run.how, argv |-> argv, raised |-> raised])
                   ELSE executed
            /\ module' = IF raised /\ run.how = "import" THEN module ELSE "module"
            /\ file_pc' = IF raised THEN "raised" ELSE "loop"
            /\ instances' = IF run.runs /\ ~raised
                            THEN Append(instances, ScriptPLC(argv))
                            ELSE instances
    /\ names_iter' = names_iter + 1
    /\ UNCHANGED <<names, filetext>>
    /\ UNCHANGED not_file_registry_vars

\* file(), line 112: the loop is over, the registry is listed
file_return ==
    /\ file_pc = "loop"
    /\ names_iter = Len(names.items)
    /\ file_pc' = "done"
    /\ UNCHANGED <<names, filetext, module, sys_argv, executed, names_iter>>
    /\ UNCHANGED not_file_vars

-----------------------------------------------------------------------------
(* MotionArea.make_new_motion and MotionArea._execute_script *)

\* the brick folders of a motion area that may hold a generator of their own
BrickFolders == <<"BL01-MO-STEP-01", "BL01-MO-STEP-02">>

\* _parse_masters: the homing PLC files included by the Master.pmc files
PlcFile(n) == <<"PLCs/PLC">> \o NatStr(10 + n) \o <<"_HM.pmc">>
PlcFileLists == {[n \in 1..k |-> PlcFile(n)] : k \in 0..MaxTargets}

\* the generators make_new_motion goes through, in order: the root one, or
\* the one of each brick folder that has one
GeneratorLists(root) ==
    IF root
    THEN {<<[folder |-> "new_motion", plc_files |-> f]>> : f \in PlcFileLists}
    ELSE UNION {[1..b -> PlcFileLists] : b \in 0..Len(BrickFolders)}

BrickGenerators(lists) ==
    [g \in 1..Len(lists) |-> [folder |-> BrickFolders[g], plc_files |-> lists[g]]]

\* a path is a root (original_path, old_motion or new_motion) and, below it,
\* a sequence of parts; a part is a sequence of atoms
Dir(name) == <<name>>
AbsPath(root, rel) == [root |-> root, rel |-> rel]

\* new_script_name = "motorhome.py"; new_script_path = f"configure/{...}"
new_script_name == <<"motorhome", ".py">>
new_script_path == <<Dir("configure"), new_script_name>>

\* copy_new_gen = "" and copy_old_gen = "", the class attributes
class_copy_gen == [is_list |-> FALSE, value |-> <<>>]
list_copy_gen(paths) == [is_list |-> TRUE, value |-> paths]

\* self.copy_new_gen = new_root_gen; self.copy_old_gen = original_path / ...
root_copy_new_gen ==
    [is_list |-> FALSE, value |-> AbsPath("new_motion", <<new_script_name>>)]
root_copy_old_gen ==
    [is_list |-> FALSE, value |-> AbsPath("original", new_script_path)]

\* faulty variant: the destination is put in front of the earlier ones
brick_copy_old_gen_prepend(gens, brick) ==
    list_copy_gen(<<AbsPath("original", <<Dir(brick)>> \o new_script_path)>>
                      \o gens.value)

\* self.copy_old_gen.append(original_path / brick_folder.parts[-1] /
\* new_script_path)
brick_copy_old_gen(gens, brick) ==
    list_copy_gen(Append(gens.value,
                         AbsPath("original", <<Dir(brick)>> \o new_script_path)))

\* new_gen = brick_folder / new_script_path; self.copy_new_gen.append(new_gen)
brick_copy_new_gen(gens, brick) ==
    list_copy_gen(Append(gens.value,
                         AbsPath("new_motion", <<Dir(brick)>> \o new_script_path)))

\* what was left in PLC.instances by earlier work in the same process
StalePLC ==
    [plc |-> 9, bricktype |-> <<"ControllerType.pmac">>,
     filename |-> <<"PLCs/PLC9_OLD_HM.pmc">>, timeout |-> DefaultTimeout,
     groups |-> <<>>]

\* the registry of a child that ran the legacy script for one plc_file
ChildRegistry(plc_file, n) ==
    <<[plc |-> 10 + n, bricktype |-> <<"ControllerType.brick">>,
       filename |-> plc_file, timeout |-> DefaultTimeout, groups |-> <<>>]>>

\* pickle.dumps in the child's PLC.write(), pickle.loads in the parent
pickle_dumps(things) == [pickled |-> things]
pickle_loads(msg) == msg.pickled

NoProcess ==
    [state |-> "none", id |-> 0, script |-> "none", target |-> 0, returncode |-> 0]

Event(ev, script, target, returncode, pypath) ==
    [ev |-> ev, gen |-> gen_iter + 1, script |-> script, target |-> target,
     returncode |-> returncode, pypath |-> pypath]

current_gen == generators[gen_iter + 1]

\* str(":").join([str(Path()), str(self.shim), str(self.shim.parent.parent),
\* str(plc_file.parent)])
legacy_pypath == <<".", "converter/shim", ".", "PLCs">>

\* faulty variant: the new script is given the search path of the capture
new_pypath_with_shim == legacy_pypath

\* Path(), the pypath of the new script
new_pypath == <<".">>

\* the children spawned so far
Spawned == Cardinality({i \in 1..Len(trace) : trace[i].ev = "spawn"})

\* the child's output: what it has still to print and what of it is in the
\* stdout pipe, the size of its message and what of it is still to write, and
\* the sizes of the messages in the named pipe
NoOutput ==
    [stdout_todo |-> 0, stdout_used |-> 0, msg_size |-> 0, msg_todo |-> 0,
     fifo_sizes |-> <<>>]

RECURSIVE SumSizes(_)
SumSizes(sizes) == IF sizes = <<>> THEN 0 ELSE Head(sizes) + SumSizes(Tail(sizes))

\* what is in the named pipe: the whole messages and the part of one
FifoUsed(io) ==
    SumSizes(io.fifo_sizes) + (IF io.msg_todo > 0 THEN io.msg_size - io.msg_todo ELSE 0)

\* the legacy script under the shim writes a message or fails before it does
\* (size 0); the new script writes none
MessageSizes(script) == IF script = "legacy" THEN 0..MaxOutput ELSE {0}

\* faulty variant: a pipe takes whatever is written to it
has_room_always(used) == TRUE

\* a write to a pipe that nobody reads goes through while the pipe has room
has_room(used) == used < PipeCapacity

\* subprocess.Popen(command, shell=True, stdout=subprocess.PIPE)
Popen(script, target, pypath) ==
    /\ process' = [state |-> "running", id |-> Spawned + 1, script |-> script,
                   target |-> target, returncode |-> 0]
    /\ alive' = alive \cup {[id |-> Spawned + 1, gen |-> gen_iter + 1,
                             script |-> script, target |-> target]}
    /\ trace' = Append(trace, Event("spawn", script, target, 0, pypath))
    /\ \E out \in 0..MaxOutput, size \in MessageSizes(script) :
        child_io' = [child_io EXCEPT !.stdout_todo = out, !.stdout_used = 0,
                                     !.msg_size = size, !.msg_todo = size]

\* faulty variant: wait comes back while the child still runs
wait_returns_at_once(proc) == proc.state # "none"

\* process.wait() comes back once the child has exited
wait_returns(proc) == proc.state = "exited"

\* make_new_motion, lines 163-185 and 222-224: the copy is staged; with a
\* root generator the registry is cleared and the pipe made and opened
new_motion_start ==
    /\ nm_pc = "start"
    /\ IF root_gen_exists
       THEN /\ copy_new_gen' = root_copy_new_gen
            /\ copy_old_gen' = root_copy_old_gen
            /\ instances' = <<>>
            /\ fifo' = [state |-> "open", buf |-> <<>>]
            /\ trace' = trace \o <<Event("clear", "none", 0, 0, <<>>),
                                   Event("open", "none", 0, 0, <<>>)>>
            /\ child_io' = NoOutput
            /\ nm_pc' = "loop"
       ELSE /\ copy_new_gen' = list_copy_gen(<<>>)
            /\ copy_old_gen' = list_copy_gen(<<>>)
            /\ nm_pc' = "generator"
            /\ UNCHANGED <<instances, fifo, trace, child_io>>
    /\ UNCHANGED <<root_gen_exists, generators, gen_iter, plc_iter, process, alive,
                   emitted>>
    /\ UNCHANGED not_nm_vars

\* make_new_motion, lines 225-242: the next brick's pipe is made and opened and
\* the registry cleared
brick_start ==
    /\ nm_pc = "generator"
    /\ gen_iter < Len(generators)
    /\ copy_old_gen' = brick_copy_old_gen(copy_old_gen, current_gen.folder)
    /\ copy_new_gen' = brick_copy_new_gen(copy_new_gen, current_gen.folder)
    /\ fifo' = [state |-> "open", buf |-> <<>>]
    /\ child_io' = NoOutput
    /\ instances' = <<>>
    /\ trace' = trace \o <<Event("open", "none", 0, 0, <<>>),
                           Event("clear", "none", 0, 0, <<>>)>>
    /\ plc_iter' = 0
    /\ nm_pc' = "loop"
    /\ UNCHANGED <<root_gen_exists, generators, gen_iter, process, alive, emitted>>
    /\ UNCHANGED not_nm_vars

\* make_new_motion, lines 187-203 and 243-258: the legacy script is spawned
\* for the next plc_file
execute_legacy ==
    /\ nm_pc = "loop"
    /\ plc_iter < Len(current_gen.plc_files)
    /\ Popen("legacy", plc_iter + 1, legacy_pypath)
    /\ nm_pc' = "wait"
    /\ UNCHANGED <<root_gen_exists, generators, gen_iter, plc_iter, fifo, emitted>>
    /\ UNCHANGED instances
    /\ UNCHANGED <<not_nm_vars, copy_gen_vars>>

\* a child prints: a block goes into its stdout pipe, which the orchestrator
\* never reads, while the pipe has room
child_write_stdout ==
    /\ process.state = "running"
    /\ child_io.stdout_todo > 0
    /\ has_room(child_io.stdout_used)
    /\ child_io' = [child_io EXCEPT !.stdout_todo = @ - 1, !.stdout_used = @ + 1]
    /\ UNCHANGED <<nm_pc, root_gen_exists, generators, gen_iter, plc_iter, fifo,
                   process, alive, trace, emitted>>
    /\ UNCHANGED instances
    /\ UNCHANGED <<not_nm_vars, copy_gen_vars>>

\* a child: the legacy script under the shim ends with PLC.write(), which
\* puts the pickled registry in the named pipe block by block while the pipe
\* has room; the message is there when its last block is
child_write_message ==
    /\ process.state = "running"
    /\ process.script = "legacy"
    /\ fifo.state = "open"
    /\ child_io.msg_todo > 0
    /\ has_room(FifoUsed(child_io))
    /\ IF child_io.msg_todo = 1
       THEN /\ child_io' = [child_io EXCEPT !.msg_todo = 0,
                                            !.fifo_sizes = Append(@, child_io.msg_size)]
            /\ fifo' = [fifo EXCEPT !.buf = Append(@,
                            pickle_dumps(ChildRegistry(
                                current_gen.plc_files[process.target],
                                process.target)))]
       ELSE /\ child_io' = [child_io EXCEPT !.msg_todo = @ - 1]
            /\ UNCHANGED fifo
    /\ UNCHANGED <<nm_pc, root_gen_exists, generators, gen_iter, plc_iter, process,
                   alive, trace, emitted>>
    /\ UNCHANGED instances
    /\ UNCHANGED <<not_nm_vars, copy_gen_vars>>

\* a child exits once it has nothing left to write: the legacy script with 0
\* after its message, or with an error and no message; the new script with
\* either
child_exit ==
    /\ \E child \in alive, ok \in BOOLEAN :
        /\ child.id = process.id =>
               child_io.stdout_todo = 0 /\ child_io.msg_todo = 0
        /\ (child.id = process.id /\ child.script = "legacy") =>
               (ok <=> child_io.msg_size > 0)
        /\ alive' = alive \ {child}
        /\ trace' = Append(trace,
               [ev |-> "exit", gen |-> child.gen, script |-> child.script,
                target |-> child.target, returncode |-> IF ok THEN 0 ELSE 1,
                pypath |-> <<>>])
        /\ process' = IF process.id = child.id
                      THEN [process EXCEPT !.state = "exited",
                                           !.returncode = IF ok THEN 0 ELSE 1]
                      ELSE process
    /\ UNCHANGED <<nm_pc, root_gen_exists, generators, gen_iter, plc_iter, fifo,
                   emitted, child_io>>
    /\ UNCHANGED instances
    /\ UNCHANGED <<not_nm_vars, copy_gen_vars>>

\* get_message(fifo): the next message in the pipe, or None
get_message(pipe) == IF pipe.buf = <<>> THEN <<>> ELSE <<Head(pipe.buf)>>

\* faulty variant: no message empties the registry
received_reset(registry, msg) ==
    IF msg # <<>> THEN registry \o pickle_loads(msg[1]) ELSE <<>>

\* faulty variant: the PLCs received are put in front
received_prepend(registry, msg) ==
    IF msg # <<>> THEN pickle_loads(msg[1]) \o registry ELSE registry

\* if msg is not None: for thing in pickle.loads(msg):
\*     PLC.instances.append(thing)
received(registry, msg) ==
    IF msg # <<>> THEN registry \o pickle_loads(msg[1]) ELSE registry

\* _execute_script, line 119, then make_new_motion, lines 205-208 and 261-267:
\* process.wait() returns, its result is dropped; a message, if there is
\* one, is unpickled and its PLCs appended to PLC.instances
collect_message ==
    /\ nm_pc = "wait"
    /\ wait_returns(process)
    /\ process.script = "legacy"
    /\ LET msg == get_message(fifo)
       IN  /\ instances' = received(instances, msg)
           /\ fifo' = IF msg # <<>> THEN [fifo EXCEPT !.buf = Tail(@)] ELSE fifo
           /\ child_io' = [NoOutput EXCEPT !.fifo_sizes =
                               IF msg # <<>> THEN Tail(child_io.fifo_sizes)
                               ELSE child_io.fifo_sizes]
    /\ trace' = Append(trace, Event("read", "legacy", process.target, 0, <<>>))
    /\ process' = NoProcess
    /\ plc_iter' = plc_iter + 1
    /\ nm_pc' = "loop"
    /\ UNCHANGED <<root_gen_exists, generators, gen_iter, alive, emitted>>
    /\ UNCHANGED <<not_nm_vars, copy_gen_vars>>

\* make_new_motion, line 211 (after the loop) and line 271 (after make_code)
close_fifo ==
    /\ IF root_gen_exists
       THEN nm_pc = "loop" /\ plc_iter = Len(current_gen.plc_files)
       ELSE nm_pc = "close"
    /\ fifo' = [fifo EXCEPT !.state = "closed"]
    /\ trace' = Append(trace, Event("close", "none", 0, 0, <<>>))
    /\ nm_pc' = IF root_gen_exists THEN "make_code" ELSE "execute_new"
    /\ UNCHANGED <<root_gen_exists, generators, gen_iter, plc_iter, process, alive,
                   emitted>>
    /\ UNCHANGED child_io
    /\ UNCHANGED instances
    /\ UNCHANGED <<not_nm_vars, copy_gen_vars>>

\* make_new_motion, line 214 (after the close) and line 268 (after the loop):
\* self.make_code(new_root_gen) or self.make_code(new_gen)
new_motion_make_code ==
    /\ IF root_gen_exists
       THEN nm_pc = "make_code"
       ELSE nm_pc = "loop" /\ plc_iter = Len(current_gen.plc_files)
    /\ emitted' = Append(emitted, open_w(<<>>, make_code_text(instances)))
    /\ trace' = Append(trace, Event("make_code", "new", 0, 0, <<>>))
    /\ nm_pc' = IF root_gen_exists THEN "execute_new" ELSE "close"
    /\ UNCHANGED <<root_gen_exists, generators, gen_iter, plc_iter, fifo, process,
                   alive>>
    /\ UNCHANGED child_io
    /\ UNCHANGED instances
    /\ UNCHANGED <<not_nm_vars, copy_gen_vars>>

\* make_new_motion, lines 219 and 273: the new script is spawned
execute_new ==
    /\ nm_pc = "execute_new"
    /\ Popen("new", 0, new_pypath)
    /\ nm_pc' = "wait"
    /\ UNCHANGED <<root_gen_exists, generators, gen_iter, plc_iter, fifo, emitted>>
    /\ UNCHANGED instances
    /\ UNCHANGED <<not_nm_vars, copy_gen_vars>>

\* _execute_script, line 119, for the new script: process.wait() returns, its
\* result is dropped; make_new_motion goes on to the next brick or returns
new_script_done ==
    /\ nm_pc = "wait"
    /\ wait_returns(process)
    /\ process.script = "new"
    /\ trace' = Append(trace, Event("waited", "new", 0, 0, <<>>))
    /\ process' = NoProcess
    /\ child_io' = [NoOutput EXCEPT !.fifo_sizes = child_io.fifo_sizes]
    /\ gen_iter' = gen_iter + 1
    /\ nm_pc' = IF root_gen_exists THEN "done" ELSE "generator"
    /\ UNCHANGED <<root_gen_exists, generators, plc_iter, fifo, alive, emitted>>
    /\ UNCHANGED instances
    /\ UNCHANGED <<not_nm_vars, copy_gen_vars>>

\* make_new_motion, line 225: no generator is left, the function returns
new_motion_return ==
    /\ nm_pc = "generator"
    /\ gen_iter = Len(generators)
    /\ nm_pc' = "done"
    /\ UNCHANGED <<root_gen_exists, generators, gen_iter, plc_iter, fifo, process,
                   alive, trace, emitted>>
    /\ UNCHANGED child_io
    /\ UNCHANGED instances
    /\ UNCHANGED <<not_nm_vars, copy_gen_vars>>

-----------------------------------------------------------------------------
(* MotionArea: the source tree and the two working copies *)

Roots == {"original", "old_motion", "new_motion"}

\* the text of a file is a sequence of lines, a line is a sequence of atoms
NoFile == [text |-> <<>>, origin |-> "absent"]
SourceFile(text) == [text |-> text, origin |-> "source"]
RunFile(text) == [text |-> text, origin |-> "run"]

\* the file names of a motion area
HomePlcName == <<"PLC", "11", "_SLITS", "_HM", ".pmc">>
MasterName == <<"Master", ".pmc">>
GeneratorName == <<"generate_homing_plcs", ".py">>

\* script_path = "configure/generate_homing_plcs.py"
script_path == <<Dir("configure"), GeneratorName>>

MasterPath(brick) == <<Dir(brick), MasterName>>
BrickGenPath(brick) == <<Dir(brick)>> \o script_path
HomePlcPath(brick) == <<Dir(brick), Dir("PLCs"), HomePlcName>>
\* a file named like a homing PLC at the top of the tree, and one that is
\* neither controller text nor a generator
TopPlcPath == <<<<"PLC", "9", "_OLD", "_HM", ".pmc">>>>
NotesPath == <<<<"notes", ".txt">>>>

NewScriptPath(brick) == <<Dir(brick)>> \o new_script_path

AreaPaths ==
    {script_path, TopPlcPath, NotesPath, <<new_script_name>>}
        \cup {NewScriptPath(b) : b \in Range(BrickFolders)}
        \cup {MasterPath(b) : b \in Range(BrickFolders)}
        \cup {BrickGenPath(b) : b \in Range(BrickFolders)}
        \cup {HomePlcPath(b) : b \in Range(BrickFolders)}

EmptyTree == [p \in AreaPaths |-> NoFile]
NoFiles == [r \in Roots |-> EmptyTree]

\* the texts found in a motion area
IncludeLine(name) == <<"#include \"", "PLCs/">> \o name \o <<"\"">>
MasterText == <<<<"; motors">>, IncludeLine(HomePlcName)>>
GeneratorText == <<<<"from", " ", "motorhome", " ", "import", " ", "*">>>>
StaleText == <<<<"OPEN", " ", "PLC", " ", "9">>, <<"CLOSE">>>>
HomingText == <<<<"OPEN", " ", "PLC", " ", "11">>, <<"CLOSE">>>>
\* the same with more white space and an empty line
HomingTextSpaced ==
    <<<<"OPEN", " ", " ", "PLC", " ", "11", " ">>, <<>>, <<"CLOSE">>>>
\* the same with one more statement
HomingTextChanged ==
    <<<<"OPEN", " ", "PLC", " ", "11">>, <<"HOME">>, <<"CLOSE">>>>

\* a motion area with one root generator, or with one generator per brick;
\* the homing PLCs of an earlier generation are in it
SourceTree(root_gen) ==
    [p \in AreaPaths |->
        CASE p \in {MasterPath(b) : b \in Range(BrickFolders)} ->
                 SourceFile(MasterText)
          [] p \in {HomePlcPath(b) : b \in Range(BrickFolders)} ->
                 SourceFile(StaleText)
          [] p = TopPlcPath -> SourceFile(StaleText)
          [] p = NotesPath -> SourceFile(<<<<"notes">>>>)
          [] p = script_path ->
                 IF root_gen THEN SourceFile(GeneratorText) ELSE NoFile
          [] p \in {BrickGenPath(b) : b \in Range(BrickFolders)} ->
                 IF root_gen THEN NoFile ELSE SourceFile(GeneratorText)
          [] OTHER -> NoFile]

-----------------------------------------------------------------------------
(* Path.glob and the patterns of MotionArea *)

\* fnmatch of one path part against "*.pmc", "generate_homing_plcs.py",
\* "PLC*_HM.pmc" and "Master*pmc"
fnmatch_pmc(part) == part # <<>> /\ Last(part) = ".pmc"
fnmatch_generator(part) == part = GeneratorName
fnmatch_home_plc(part) ==
    /\ Len(part) >= 3
    /\ part[1] = "PLC"
    /\ part[Len(part) - 1] = "_HM"
    /\ part[Len(part)] = ".pmc"
fnmatch_master(part) ==
    Len(part) >= 2 /\ part[1] = "Master" /\ Last(part) = ".pmc"

\* faulty variant: the pattern "*/PLC*_HM.pmc", one directory deep only
find_auto_home_plcs_one_deep(rel) ==
    Len(rel) = 2 /\ fnmatch_home_plc(Last(rel))

\* find_auto_home_plcs = "**/*/PLC*_HM.pmc": in some directory below the root
find_auto_home_plcs(rel) == Len(rel) >= 2 /\ fnmatch_home_plc(Last(rel))

\* "**/*.pmc" and "**/generate_homing_plcs.py", the patterns of copytree
copytree_patterns(rel) ==
    rel # <<>> /\ (fnmatch_pmc(Last(rel)) \/ fnmatch_generator(Last(rel)))

\* "*/configure/generate_homing_plcs.py", the per brick generators
brick_generators(rel) == Len(rel) = 3 /\ SubSeq(rel, 2, 3) = script_path

\* "**/Master*pmc" below the folder root
masters_below(root, rel) ==
    /\ Len(rel) > Len(root)
    /\ SubSeq(rel, 1, Len(root)) = root
    /\ fnmatch_master(Last(rel))

exists(tree, rel) == rel \in DOMAIN tree /\ tree[rel] # NoFile

\* faulty variant: every path that matches, without looking under root
glob_unchecked(tree, matching) == matching

\* root.glob(pattern): the existing files below root among the paths that
\* match the pattern
glob(tree, matching) == {rel \in matching : exists(tree, rel)}

parent(rel) == SubSeq(rel, 1, Len(rel) - 1)

-----------------------------------------------------------------------------
(* MotionArea.copytree and MotionArea._remove_homing_plcs *)

\* in_files = list(glob_files("*.pmc", "generate_homing_plcs.py"))
in_files(source) == glob(source, {rel \in DOMAIN source : copytree_patterns(rel)})

\* the copies that may raise in one call: none, or the copy of one in_file
CopyFailures(source) == {{}} \cup {{f} : f \in in_files(source)}

\* faulty variant: a copy that raises ends the whole loop
copied_until_failure(files, failed) == IF failed = {} THEN files ELSE {}

\* try: ... copy(in_file, out_file) except Exception: log.warning(...)
copied(files, failed) == files \ failed

\* copytree(source, dest): every in_file whose copy does not raise is written
\* at dest / file.relative_to(source)
copytree(source, dest, failed) ==
    [rel \in DOMAIN dest |->
        IF rel \in copied(in_files(source), failed) THEN source[rel] ELSE dest[rel]]

\* for plc in root.glob(self.find_auto_home_plcs): plc.unlink()
remove_homing_plcs(tree) ==
    [rel \in DOMAIN tree |->
        IF rel \in glob(tree, {r \in DOMAIN tree : find_auto_home_plcs(r)})
        THEN NoFile
        ELSE tree[rel]]

\* home_plc_include.findall(master_text): the included PLCs/PLC<n>_<x>_HM.pmc
IsHomeInclude(line) ==
    /\ Len(line) = 8
    /\ line[1] = "#include \"" /\ line[2] = "PLCs/" /\ line[8] = "\""
    /\ line[3] = "PLC" /\ line[6] = "_HM" /\ line[7] = ".pmc"
home_plc_include(text) ==
    {<<Dir("PLCs"), SubSeq(line, 3, 7)>> : line \in {l \in Range(text) : IsHomeInclude(l)}}

\* _parse_masters(root): master_dir / path for every include of every Master
\* file below root, here with the folder root in front
parse_masters(tree, root) ==
    UNION {{parent(master) \o include :
                include \in home_plc_include(tree[master].text)} :
           master \in glob(tree, {rel \in DOMAIN tree : masters_below(root, rel)})}

\* the folders whose generator is run: the copy itself when it has a root
\* generator, else the brick folder of every per brick generator
generator_folders(tree) ==
    IF exists(tree, script_path)
    THEN {<<>>}
    ELSE {parent(parent(gen)) : gen \in glob(tree, {rel \in DOMAIN tree : brick_generators(rel)})}

\* the plc_files the generators are executed for
plc_files(tree) == UNION {parse_masters(tree, folder) : folder \in generator_folders(tree)}

\* the orders in which a glob may yield the members of a set
Orders(S) ==
    {order \in [1..Cardinality(S) -> S] :
        \A i, j \in 1..Cardinality(S) : i # j => order[i] # order[j]}

\* what the new script writes for one plc_file: nothing, or one of the texts
NewWrites ==
    {[written |-> FALSE, text |-> <<>>]}
        \cup {[written |-> TRUE, text |-> t] :
                 t \in {HomingText, HomingTextSpaced, HomingTextChanged}}

\* copy_new_gen and copy_old_gen after the generators in this order
RECURSIVE brick_copy_new_gens(_)
brick_copy_new_gens(order) ==
    IF order = <<>>
    THEN list_copy_gen(<<>>)
    ELSE brick_copy_new_gen(brick_copy_new_gens(SubSeq(order, 1, Len(order) - 1)),
                            Last(Last(order))[1])
RECURSIVE brick_copy_old_gens(_)
brick_copy_old_gens(order) ==
    IF order = <<>>
    THEN list_copy_gen(<<>>)
    ELSE brick_copy_old_gen(brick_copy_old_gens(SubSeq(order, 1, Len(order) - 1)),
                            Last(Last(order))[1])

\* make_code(new_gen) for every generator folder
written_scripts(tree, folders) ==
    [rel \in DOMAIN tree |->
        IF \E folder \in folders :
               rel = folder \o (IF folder = <<>> THEN <<new_script_name>>
                                ELSE new_script_path)
        THEN RunFile(GeneratorText)
        ELSE tree[rel]]

\* make_old_motion, line 126
old_copytree ==
    /\ area_pc = "start"
    /\ \E failed \in CopyFailures(fs.original) :
        /\ fs' = [fs EXCEPT !.old_motion = copytree(fs.original, @, failed)]
        /\ copy_failed' = failed
    /\ area_pc' = "old_copied"
    /\ UNCHANGED <<cm, log, copy_gen_vars>>
    /\ UNCHANGED not_area_vars

\* make_old_motion, line 127
old_remove_homing_plcs ==
    /\ area_pc = "old_copied"
    /\ fs' = [fs EXCEPT !.old_motion = remove_homing_plcs(@)]
    /\ area_pc' = "old_clean"
    /\ UNCHANGED <<copy_failed, cm, log, copy_gen_vars>>
    /\ UNCHANGED not_area_vars

\* make_old_motion, lines 131-156: the generator is executed for each
\* plc_file; each child writes its plc_file or ends without writing it
old_generate ==
    /\ area_pc = "old_clean"
    /\ \E written \in SUBSET plc_files(fs.old_motion) :
        fs' = [fs EXCEPT !.old_motion =
                  [rel \in DOMAIN @ |->
                      IF rel \in written THEN RunFile(HomingText) ELSE @[rel]]]
    /\ area_pc' = "old_made"
    /\ UNCHANGED <<copy_failed, cm, log, copy_gen_vars>>
    /\ UNCHANGED not_area_vars

\* make_new_motion, line 163
new_copytree ==
    /\ area_pc = "old_made"
    /\ \E failed \in CopyFailures(fs.original) :
        /\ fs' = [fs EXCEPT !.new_motion = copytree(fs.original, @, failed)]
        /\ copy_failed' = failed
    /\ area_pc' = "new_copied"
    /\ UNCHANGED <<cm, log, copy_gen_vars>>
    /\ UNCHANGED not_area_vars

\* make_new_motion, line 164
new_remove_homing_plcs ==
    /\ area_pc = "new_copied"
    /\ fs' = [fs EXCEPT !.new_motion = remove_homing_plcs(@)]
    /\ area_pc' = "new_clean"
    /\ UNCHANGED <<copy_failed, cm, log, copy_gen_vars>>
    /\ UNCHANGED not_area_vars

\* make_new_motion, lines 165-273: for every generator the capture, make_code
\* and the execution of the new script, which writes its plc_files or not
new_generate ==
    /\ area_pc = "new_clean"
    /\ LET tree == fs.new_motion
           folders == generator_folders(tree)
       IN  /\ \E writes \in [plc_files(tree) -> NewWrites] :
                fs' = [fs EXCEPT !.new_motion =
                          [rel \in DOMAIN tree |->
                              IF rel \in DOMAIN writes /\ writes[rel].written
                              THEN RunFile(writes[rel].text)
                              ELSE written_scripts(tree, folders)[rel]]]
           /\ IF exists(tree, script_path)
              THEN /\ copy_new_gen' = root_copy_new_gen
                   /\ copy_old_gen' = root_copy_old_gen
              ELSE \E order \in Orders(folders) :
                   /\ copy_new_gen' = brick_copy_new_gens(order)
                   /\ copy_old_gen' = brick_copy_old_gens(order)
    /\ area_pc' = "new_made"
    /\ UNCHANGED <<copy_failed, cm, log>>
    /\ UNCHANGED not_area_vars

-----------------------------------------------------------------------------
(* MotionArea.check_matches *)

\* diff -b: runs of white space count as one blank, white space at the end of
\* a line is ignored
RECURSIVE squeeze_blanks(_)
squeeze_blanks(line) ==
    IF line = <<>> THEN <<>>
    ELSE IF Head(line) = " " /\ (Len(line) = 1 \/ line[2] = " ")
         THEN squeeze_blanks(Tail(line))
         ELSE <<Head(line)>> \o squeeze_blanks(Tail(line))

\* diff -B: lines that are empty are ignored
ignore_blank_lines(text) == SelectSeq(text, LAMBDA line : line # <<>>)

ignore_space_change(text) == [i \in 1..Len(text) |-> squeeze_blanks(text[i])]

\* diff -bB old new: 2 on trouble (a file is missing), 0 when the files are
\* the same but for white space and empty lines, 1 otherwise
diff_bB(old, new) ==
    IF old = NoFile \/ new = NoFile THEN 2
    ELSE IF ignore_blank_lines(ignore_space_change(old.text))
                = ignore_blank_lines(ignore_space_change(new.text))
         THEN 0
         ELSE 1

\* faulty variant: only the listed difference counts
returncode_is_one(returncode) == returncode = 1

\* if process.returncode != 0
returncode_not_zero(returncode) == returncode # 0

NoCheck == [plcs |-> {}, count |-> 0, mismatches |-> 0, mismatch |-> <<>>]

LogEntry(level, kind, mismatches, count, lines) ==
    [level |-> level, kind |-> kind, mismatches |-> mismatches, count |-> count,
     lines |-> lines]

\* zip(self.copy_new_gen, self.copy_old_gen)
zip(new_gens, old_gens) ==
    [i \in 1..(IF Len(new_gens) <= Len(old_gens) THEN Len(new_gens)
               ELSE Len(old_gens)) |->
        [new |-> new_gens[i], old |-> old_gens[i]]]

\* check_matches, lines 276-281
cm_start ==
    /\ area_pc = "new_made"
    /\ cm' = [NoCheck EXCEPT !.plcs =
                  glob(fs.old_motion, {rel \in AreaPaths : find_auto_home_plcs(rel)})]
    /\ log' = Append(log, LogEntry("info", "verifying", 0, 0, <<>>))
    /\ area_pc' = "compare"
    /\ UNCHANGED <<fs, copy_failed, copy_gen_vars>>
    /\ UNCHANGED not_area_vars

\* check_matches, lines 282-293: the next old_plc of the glob
cm_compare ==
    /\ area_pc = "compare"
    /\ \E old_plc \in cm.plcs :
        LET relative == old_plc
            returncode == diff_bB(fs.old_motion[old_plc], fs.new_motion[relative])
        IN  cm' = [plcs |-> cm.plcs \ {old_plc},
                   count |-> cm.count + 1,
                   mismatches |-> IF returncode_not_zero(returncode)
                                  THEN cm.mismatches + 1 ELSE cm.mismatches,
                   mismatch |-> IF returncode_not_zero(returncode)
                                THEN Append(cm.mismatch,
                                            [old |-> AbsPath("old_motion", old_plc),
                                             new |-> AbsPath("new_motion", relative)])
                                ELSE cm.mismatch]
    /\ UNCHANGED <<fs, copy_failed, area_pc, log, copy_gen_vars>>
    /\ UNCHANGED not_area_vars

\* check_matches, lines 294-307
cm_report ==
    /\ area_pc = "compare"
    /\ cm.plcs = {}
    /\ log' = IF cm.mismatches = 0
              THEN Append(log, LogEntry("warning", "Success", 0, cm.count, <<>>))
              ELSE log \o <<LogEntry("warning", "Failure", cm.mismatches, cm.count,
                                     <<>>),
                            LogEntry("info", "mismatch", cm.mismatches, cm.count,
                                     cm.mismatch)>>
    /\ area_pc' = "reported"
    /\ UNCHANGED <<fs, copy_failed, cm, copy_gen_vars>>
    /\ UNCHANGED not_area_vars

\* check_matches, lines 308-321
cm_copy_command ==
    /\ area_pc = "reported"
    /\ log' = Append(log,
                 LogEntry("warning", "copy", cm.mismatches, cm.count,
                     IF copy_new_gen.is_list
                     THEN zip(copy_new_gen.value, copy_old_gen.value)
                     ELSE <<[new |-> copy_new_gen.value,
                             old |-> AbsPath("original", new_script_path)]>>))
    /\ area_pc' = "commanded"
    /\ UNCHANGED <<fs, copy_failed, cm, copy_gen_vars>>
    /\ UNCHANGED not_area_vars

\* check_matches, lines 322-325: assert mismatches == 0
cm_assert ==
    /\ area_pc = "commanded"
    /\ area_pc' = IF cm.mismatches = 0 THEN "returned" ELSE "AssertionError"
    /\ UNCHANGED <<fs, copy_failed, cm, log, copy_gen_vars>>
    /\ UNCHANGED not_area_vars

-----------------------------------------------------------------------------
(* Specifications *)

\* the post-home translation on its own
PostNext == HandlePostCall
\* a token is about to be handed to handle_post; nothing is captured
InitPost ==
    /\ post_in \in PostTokens
    /\ post_out = PostResult(<<>>, <<>>, <<>>)
    /\ post_called = FALSE
    /\ instances = <<>>
    /\ motor_count = 0
    /\ outfile = <<>>
    /\ pc = "capture"
    /\ Motor_instances = <<>>
    /\ Motor_args = <<>>
    /\ names = [kind |-> "tuple", items |-> <<>>]
    /\ filetext = <<>>
    /\ module = "None"
    /\ sys_argv = <<"converter">>
    /\ executed = <<>>
    /\ file_pc = "start"
    /\ names_iter = 0
    /\ nm_pc = "start"
    /\ root_gen_exists = TRUE
    /\ generators = <<>>
    /\ gen_iter = 0
    /\ plc_iter = 0
    /\ fifo = [state |-> "absent", buf |-> <<>>]
    /\ process = [state |-> "none", id |-> 0, script |-> "none", target |-> 0,
                  returncode |-> 0]
    /\ alive = {}
    /\ trace = <<>>
    /\ emitted = <<>>
    /\ fs = NoFiles
    /\ copy_failed = {}
    /\ copy_new_gen = class_copy_gen
    /\ copy_old_gen = class_copy_gen
    /\ area_pc = "start"
    /\ cm = NoCheck
    /\ log = <<>>
    /\ child_io = NoOutput
SpecPost == InitPost /\ [][PostNext]_vars

\* capture of a legacy script, then code generation
Next == OpenPLC \/ OpenGroup \/ DeclareMotor \/ make_code
\* PLC.instances = [], no motor created, no file written; handle_post idle
Init ==
    /\ post_in = NoneTok
    /\ post_out = PostResult(<<>>, <<>>, <<>>)
    /\ post_called = FALSE
    /\ instances = <<>>
    /\ motor_count = 0
    /\ outfile = <<>>
    /\ pc = "capture"
    /\ Motor_instances = <<>>
    /\ Motor_args = <<>>
    /\ names = [kind |-> "tuple", items |-> <<>>]
    /\ filetext = <<>>
    /\ module = "None"
    /\ sys_argv = <<"converter">>
    /\ executed = <<>>
    /\ file_pc = "start"
    /\ names_iter = 0
    /\ nm_pc = "start"
    /\ root_gen_exists = TRUE
    /\ generators = <<>>
    /\ gen_iter = 0
    /\ plc_iter = 0
    /\ fifo = [state |-> "absent", buf |-> <<>>]
    /\ process = [state |-> "none", id |-> 0, script |-> "none", target |-> 0,
                  returncode |-> 0]
    /\ alive = {}
    /\ trace = <<>>
    /\ emitted = <<>>
    /\ fs = NoFiles
    /\ copy_failed = {}
    /\ copy_new_gen = class_copy_gen
    /\ copy_old_gen = class_copy_gen
    /\ area_pc = "start"
    /\ cm = NoCheck
    /\ log = <<>>
    /\ child_io = NoOutput
Spec == Init /\ [][Next]_vars

\* Motor objects constructed one after another in one process
MotorNext == NewMotor
\* Motor.instances = [] at class definition
InitMotor ==
    /\ post_in = NoneTok
    /\ post_out = PostResult(<<>>, <<>>, <<>>)
    /\ post_called = FALSE
    /\ instances = <<>>
    /\ motor_count = 0
    /\ outfile = <<>>
    /\ pc = "capture"
    /\ Motor_instances = <<>>
    /\ Motor_args = <<>>
    /\ names = [kind |-> "tuple", items |-> <<>>]
    /\ filetext = <<>>
    /\ module = "None"
    /\ sys_argv = <<"converter">>
    /\ executed = <<>>
    /\ file_pc = "start"
    /\ names_iter = 0
    /\ nm_pc = "start"
    /\ root_gen_exists = TRUE
    /\ generators = <<>>
    /\ gen_iter = 0
    /\ plc_iter = 0
    /\ fifo = [state |-> "absent", buf |-> <<>>]
    /\ process = [state |-> "none", id |-> 0, script |-> "none", target |-> 0,
                  returncode |-> 0]
    /\ alive = {}
    /\ trace = <<>>
    /\ emitted = <<>>
    /\ fs = NoFiles
    /\ copy_failed = {}
    /\ copy_new_gen = class_copy_gen
    /\ copy_old_gen = class_copy_gen
    /\ area_pc = "start"
    /\ cm = NoCheck
    /\ log = <<>>
    /\ child_io = NoOutput
SpecMotor == InitMotor /\ [][MotorNext]_vars

\* many Motor objects constructed in one process, PLC after PLC
ManyMotorsNext == NewMotorInPlcOrder
SpecManyMotors == InitMotor /\ [][ManyMotorsNext]_vars

\* one call of converter.file in a fresh process
FileNext == file_names \/ file_execute \/ file_return
\* file() is entered with its arguments; the script's module is not loaded;
\* PLC.instances holds what the process left there (make_new_motion appends
\* to it in this process and never empties it afterwards)
InitFile ==
    /\ post_in = NoneTok
    /\ post_out = PostResult(<<>>, <<>>, <<>>)
    /\ post_called = FALSE
    /\ instances \in {<<>>, <<StalePLC>>}
    /\ motor_count = 0
    /\ outfile = <<>>
    /\ pc = "capture"
    /\ Motor_instances = <<>>
    /\ Motor_args = <<>>
    /\ \E input \in FileInputs : names = input[1] /\ filetext = input[2]
    /\ module = "None"
    /\ sys_argv = <<"converter">>
    /\ executed = <<>>
    /\ file_pc = "start"
    /\ names_iter = 0
    /\ nm_pc = "start"
    /\ root_gen_exists = TRUE
    /\ generators = <<>>
    /\ gen_iter = 0
    /\ plc_iter = 0
    /\ fifo = [state |-> "absent", buf |-> <<>>]
    /\ process = [state |-> "none", id |-> 0, script |-> "none", target |-> 0,
                  returncode |-> 0]
    /\ alive = {}
    /\ trace = <<>>
    /\ emitted = <<>>
    /\ fs = NoFiles
    /\ copy_failed = {}
    /\ copy_new_gen = class_copy_gen
    /\ copy_old_gen = class_copy_gen
    /\ area_pc = "start"
    /\ cm = NoCheck
    /\ log = <<>>
    /\ child_io = NoOutput
SpecFile == InitFile /\ [][FileNext]_vars

\* one call of make_new_motion, with the children it spawns
NewMotionNext ==
    \/ new_motion_start \/ brick_start \/ execute_legacy \/ child_write_stdout
    \/ child_write_message \/ child_exit
    \/ collect_message \/ close_fifo \/ new_motion_make_code \/ execute_new
    \/ new_script_done \/ new_motion_return
\* make_new_motion is entered; PLC.instances holds what the process left there
InitNewMotion ==
    /\ post_in = NoneTok
    /\ post_out = PostResult(<<>>, <<>>, <<>>)
    /\ post_called = FALSE
    /\ instances \in {<<>>, <<StalePLC>>}
    /\ motor_count = 0
    /\ outfile = <<>>
    /\ pc = "capture"
    /\ Motor_instances = <<>>
    /\ Motor_args = <<>>
    /\ names = [kind |-> "tuple", items |-> <<>>]
    /\ filetext = <<>>
    /\ module = "None"
    /\ sys_argv = <<"converter">>
    /\ executed = <<>>
    /\ file_pc = "start"
    /\ names_iter = 0
    /\ nm_pc = "start"
    /\ root_gen_exists \in BOOLEAN
    /\ generators \in IF root_gen_exists
                      THEN GeneratorLists(TRUE)
                      ELSE {BrickGenerators(l) : l \in GeneratorLists(FALSE)}
    /\ gen_iter = 0
    /\ plc_iter = 0
    /\ fifo = [state |-> "absent", buf |-> <<>>]
    /\ process = NoProcess
    /\ alive = {}
    /\ trace = <<>>
    /\ emitted = <<>>
    /\ fs = NoFiles
    /\ copy_failed = {}
    /\ copy_new_gen = class_copy_gen
    /\ copy_old_gen = class_copy_gen
    /\ area_pc = "start"
    /\ cm = NoCheck
    /\ log = <<>>
    /\ child_io = NoOutput
SpecNewMotion == InitNewMotion /\ [][NewMotionNext]_vars

\* the same under fairness: the orchestrator is a sequential program that
\* takes its next step when it can, a child that can write does, and a child
\* with nothing left to write exits
OrchestratorNext ==
    \/ new_motion_start \/ brick_start \/ execute_legacy \/ collect_message
    \/ close_fifo \/ new_motion_make_code \/ execute_new \/ new_script_done
    \/ new_motion_return
SpecNewMotionFair ==
    /\ InitNewMotion
    /\ [][NewMotionNext]_vars
    /\ WF_vars(OrchestratorNext)
    /\ WF_vars(child_write_stdout)
    /\ WF_vars(child_write_message)
    /\ WF_vars(child_exit)

\* make_old_motion, make_new_motion and check_matches on one MotionArea
AreaNext ==
    \/ old_copytree
    \/ old_remove_homing_plcs
    \/ old_generate
    \/ new_copytree
    \/ new_remove_homing_plcs
    \/ new_generate
    \/ cm_start
    \/ cm_compare
    \/ cm_report
    \/ cm_copy_command
    \/ cm_assert
\* a MotionArea is made for a source tree: the working copies are not there
InitArea ==
    /\ post_in = NoneTok
    /\ post_out = PostResult(<<>>, <<>>, <<>>)
    /\ post_called = FALSE
    /\ instances = <<>>
    /\ motor_count = 0
    /\ outfile = <<>>
    /\ pc = "capture"
    /\ Motor_instances = <<>>
    /\ Motor_args = <<>>
    /\ names = [kind |-> "tuple", items |-> <<>>]
    /\ filetext = <<>>
    /\ module = "None"
    /\ sys_argv = <<"converter">>
    /\ executed = <<>>
    /\ file_pc = "start"
    /\ names_iter = 0
    /\ nm_pc = "start"
    /\ root_gen_exists = TRUE
    /\ generators = <<>>
    /\ gen_iter = 0
    /\ plc_iter = 0
    /\ fifo = [state |-> "absent", buf |-> <<>>]
    /\ process = NoProcess
    /\ alive = {}
    /\ trace = <<>>
    /\ emitted = <<>>
    /\ fs \in {[NoFiles EXCEPT !.original = SourceTree(root_gen)] :
                 root_gen \in BOOLEAN}
    /\ copy_failed = {}
    /\ copy_new_gen = class_copy_gen
    /\ copy_old_gen = class_copy_gen
    /\ area_pc = "start"
    /\ cm = NoCheck
    /\ log = <<>>
    /\ child_io = NoOutput
SpecArea == InitArea /\ [][AreaNext]_vars

-----------------------------------------------------------------------------
(* Properties of the post-home translation, checked under SpecPost *)

\* the capture group of r"^<c>(-?\d+)": the optional minus sign and the
\* longest run of digits that follows
RECURSIVE DigitRun(_)
DigitRun(text) ==
    IF text # <<>> /\ IsDigit(Head(text))
    THEN <<Head(text)>> \o DigitRun(Tail(text))
    ELSE <<>>

post_move_group1(text) ==
    IF Len(text) >= 2 /\ text[2] = "-"
    THEN <<"-">> \o DigitRun(SubSeq(text, 3, Len(text)))
    ELSE DigitRun(Tail(text))

\* the row of the translation table a token falls in: the first that applies
TableNumericZero(post) ==
    /\ post.k \in {"int", "float"}
    /\ PyStr(post) \in {<<"0">>, <<"0", ".", "0">>, <<"-", "0", ".", "0">>}

TableMoveToken(c, post) ==
    /\ post.k = "str"
    /\ Len(post.s) >= 2
    /\ post.s[1] = c
    /\ post_move_group1(post.s) \notin {<<>>, <<"-">>}

TableRow(post) ==
    IF post.k = "None" \/ TableNumericZero(post) \/ post = StrTok(<<"0">>)
    THEN "no_action"
    ELSE IF post = StrTok(<<"i">>) THEN "initial_position"
    ELSE IF post = StrTok(<<"h">>) THEN "high_limit"
    ELSE IF post = StrTok(<<"l">>) THEN "low_limit"
    ELSE IF post = StrTok(<<"H">>) THEN "hard_hi_limit"
    ELSE IF post = StrTok(<<"L">>) THEN "hard_lo_limit"
    ELSE IF TableMoveToken("r", post) THEN "relative_move"
    ELSE IF TableMoveToken("z", post) THEN "move_and_hmz"
    ELSE IF post.k \in {"int", "float"} THEN "move_absolute"
    ELSE "raw_code"

\* what handle_post returned is the outcome named by a row of the table
RowOutcome(row, post, out) ==
    CASE row = "no_action" -> out.extra_args = <<>> /\ out.post_code = <<>>
      [] row \in {"initial_position", "high_limit", "low_limit",
                  "hard_hi_limit", "hard_lo_limit"} ->
            /\ out.extra_args = <<", post_home=PostHomeMove.", row>>
            /\ out.post_code = <<>>
      [] row \in {"relative_move", "move_and_hmz", "move_absolute"} ->
            /\ Len(out.extra_args) > 3
            /\ SubSeq(out.extra_args, 1, 3) =
                   <<", post_home=PostHomeMove.", row, ", post_distance=">>
            /\ out.post_code = <<>>
      [] row = "raw_code" -> out.extra_args = <<>> /\ out.post_code = post.s

\* C1: handle_post is total: every token (None, a number, any string) gets
\* the outcome of its row of the translation table: no action, a named action
\* without distance, a named action with a post_distance, or raw code equal to
\* the token with no extra args; and it gets the named action of no other row.
C1_PostTotal ==
    post_called =>
        /\ RowOutcome(TableRow(post_in), post_in, post_out)
        /\ \A row \in {"initial_position", "high_limit", "low_limit",
                       "hard_hi_limit", "hard_lo_limit", "relative_move",
                       "move_and_hmz", "move_absolute"} :
               row # TableRow(post_in) =>
                   ~(Len(post_out.extra_args) >= 2 /\ post_out.extra_args[2] = row)

\* C1 witness: an unknown token has come back as raw code
C1_Witness ==
    /\ post_called
    /\ post_in = StrTok(<<"x", "\t">>)
    /\ post_out.post_code = <<"x", "\t">>
    /\ post_out.extra_args = <<>>

\* C2: for every token that matches ^r(-?\d+) (resp. ^z(-?\d+)) the
\* post_distance handle_post emits is exactly the text captured by the
\* pattern, also when more characters follow the digits.
C2_DistanceIsCapture ==
    post_called /\ TableRow(post_in) \in {"relative_move", "move_and_hmz"} =>
        post_out.extra_args =
            <<", post_home=PostHomeMove.", TableRow(post_in), ", post_distance=">>
                \o post_move_group1(post_in.s)

-----------------------------------------------------------------------------
(* Reading the generated file back *)


AtomAt(chunk, i, atom) == Len(chunk) >= i /\ chunk[i] = atom

IsImportLine(chunk) == AtomAt(chunk, 1, "from pmac_motorhome.sequences import ")
IsPlcStart(chunk) == AtomAt(chunk, 1, "with plc(")
IsTimeoutLine(chunk) == AtomAt(chunk, 1, "    ") /\ AtomAt(chunk, 2, "timeout=")
IsPostBlock(chunk) == AtomAt(chunk, 1, "    ") /\ AtomAt(chunk, 2, "post")
IsGroupLine(chunk) ==
    AtomAt(chunk, 1, "    ") /\ AtomAt(chunk, 2, "with group(group_num=")
IsMotorLine(chunk) ==
    AtomAt(chunk, 1, "    ") /\ AtomAt(chunk, 2, "    ")
        /\ AtomAt(chunk, 3, "motor(axis=")
IsCommentLine(chunk) ==
    AtomAt(chunk, 1, "    ") /\ AtomAt(chunk, 2, "    ")
        /\ AtomAt(chunk, 3, "comment(\"")
IsSequenceLine(chunk) ==
    AtomAt(chunk, 1, "    ") /\ AtomAt(chunk, 2, "    ")
        /\ Len(chunk) >= 4 /\ chunk[Len(chunk) - 1] = "()"

\* the indices of the chunks of the file in lo..hi that satisfy Is
ChunksIn(lo, hi, Is(_)) ==
    SelectSeq([i \in 1..(hi - lo + 1) |-> lo + i - 1], LAMBDA i : Is(outfile[i]))

PostBlocks == SelectSeq(outfile, IsPostBlock)
GroupLines == SelectSeq(outfile, IsGroupLine)
MotorLines == SelectSeq(outfile, IsMotorLine)
CommentLines == SelectSeq(outfile, IsCommentLine)
ImportLines == SelectSeq(outfile, IsImportLine)

\* where the plc blocks start, and the chunks of the k-th block
PlcStarts == ChunksIn(1, Len(outfile), IsPlcStart)
PlcBlockEnd(k) ==
    IF k < Len(PlcStarts) THEN PlcStarts[k + 1] - 1 ELSE Len(outfile)

\* the bytes of a text whose atoms are characters or runs of four spaces
RECURSIVE Bytes(_)
Bytes(text) ==
    IF text = <<>> THEN <<>>
    ELSE (IF Head(text) = "    " THEN <<" ", " ", " ", " ">> ELSE <<Head(text)>>)
             \o Bytes(Tail(text))

RECURSIVE ParseNat(_)
ParseNat(digits) ==
    IF digits = <<>> THEN 0
    ELSE 10 * ParseNat(SubSeq(digits, 1, Len(digits) - 1))
             + (CHOOSE d \in 0..9 : Digits[d + 1] = Last(digits))

\* a triple-quoted block  <name><n> = """<text>""" : its number and its text
FirstQuote(chunk) ==
    CHOOSE i \in 1..Len(chunk) :
        chunk[i] = "\"\"\"" /\ \A j \in 1..(i - 1) : chunk[j] # "\"\"\""
BlockNumber(chunk) == SubSeq(chunk, 3, FirstQuote(chunk) - 2)
BlockText(chunk) == SubSeq(chunk, FirstQuote(chunk) + 1, Len(chunk) - 2)

\* the group number written on a group line
GroupLineNumber(chunk) == ParseNat(DigitRun(SubSeq(chunk, 3, Len(chunk))))

\* the registry: every group, every motor
AllGroups ==
    UNION {{instances[p].groups[g] : g \in 1..Len(instances[p].groups)} :
              p \in 1..Len(instances)}
GroupIds ==
    UNION {{<<p, g>> : g \in 1..Len(instances[p].groups)} :
              p \in 1..Len(instances)}
AllMotors == UNION {Range(group.motors) : group \in AllGroups}

\* a token that matches no known short code and holds some text
IsRawCode(post) == TableRow(post) = "raw_code" /\ post.s # <<>>

Generated == pc # "capture"

-----------------------------------------------------------------------------
(* Properties of the code generator, checked under Spec *)

\* the token text with every tab turned into four spaces
RECURSIVE TabsToSpaces(_)
TabsToSpaces(text) ==
    IF text = <<>> THEN <<>>
    ELSE (IF Head(text) = "\t" THEN <<" ", " ", " ", " ">> ELSE <<Head(text)>>)
             \o TabsToSpaces(Tail(text))

\* the post blocks of the file are those of the raw-code groups, with Text(s)
\* between the triple quotes for the token text s
PostBlocksAre(Text(_)) ==
    /\ Len(PostBlocks) = Cardinality({id \in GroupIds :
                             IsRawCode(instances[id[1]].groups[id[2]].post)})
    /\ {<<BlockNumber(PostBlocks[i]), Bytes(BlockText(PostBlocks[i]))>> :
            i \in 1..Len(PostBlocks)}
           = {<<IntStr(group.group_num), Text(group.post.s)>> :
                  group \in {gr \in AllGroups : IsRawCode(gr.post)}}

\* C3 as stated: the text make_code emits for the raw code block of a group
\* is byte for byte the group's post token.
C3_RawCodeVerbatim == Generated => PostBlocksAre(LAMBDA s : s)

\* C3 amended: the text between the triple quotes of the raw code block is
\* the group's post token with every tab replaced by four spaces, followed by
\* one space; nothing else is added, removed or substituted.
C3_RawCodeTabsAndSpace ==
    Generated => PostBlocksAre(LAMBDA s : TabsToSpaces(s) \o <<" ">>)

\* C3 witness: a raw code block whose tab was turned into four spaces
C3_Witness ==
    /\ Generated
    /\ \E i \in 1..Len(PostBlocks) :
           BlockText(PostBlocks[i]) = <<"x", "    ", " ">>

\* C4: a motor's token is translated like a group's: a motor whose token is
\* raw code gets a raw code block of its own, as a group does, so the file
\* holds one raw code block per raw-code group and per raw-code motor.
C4_MotorRawCodeKept ==
    Generated =>
        Len(PostBlocks) =
            Cardinality({id \in GroupIds :
                            IsRawCode(instances[id[1]].groups[id[2]].post)})
                + Cardinality({m \in AllMotors : IsRawCode(m.post)})

\* the motor line, from the motor's own fields and token
OwnMotorLine(motor) ==
    format_text(2, <<"motor(axis=">> \o IntStr(motor.axis)
                       \o <<", jdist=">> \o IntStr(motor.jdist)
                       \o <<", index=">> \o IntStr(motor.index)
                       \o handle_post(motor.post).extra_args \o <<")">>)

\* the group line, from the group's own fields and token
OwnGroupLine(group) ==
    format_text(1, <<"with group(group_num=">> \o IntStr(group.group_num)
        \o handle_post(group.post).extra_args
        \o (IF group.pre # <<>>
            THEN <<", pre=pre">> \o IntStr(group.group_num) ELSE <<>>)
        \o (IF IsRawCode(group.post)
            THEN <<", post=post">> \o IntStr(group.group_num) ELSE <<>>)
        \o <<"):">>)

\* C5: every motor(...) line carries the post_home / post_distance arguments
\* of that motor's own token, and every group(...) line the arguments of the
\* group's own token and pre text: no line depends on another object's token.
C5_MotorPostOnOwnLine ==
    Generated =>
        /\ Len(MotorLines) = motor_count
        /\ Range(MotorLines) = {OwnMotorLine(m) : m \in AllMotors}
        /\ Len(GroupLines) = GroupCount
        /\ Range(GroupLines) = {OwnGroupLine(group) : group \in AllGroups}

\* C5 witness: a motor with token r1 in a group with token i; the motor line
\* has relative_move with distance 1, the group line has initial_position
C5_Witness ==
    /\ Generated
    /\ \E group \in AllGroups :
        /\ group.post = StrTok(<<"i">>)
        /\ group.motors # <<>>
        /\ group.motors[1].post = StrTok(<<"r", "1">>)
        /\ format_text(2, <<"motor(axis=">> \o IntStr(group.motors[1].axis)
               \o <<", jdist=">> \o IntStr(group.motors[1].jdist)
               \o <<", index=">> \o IntStr(group.motors[1].index)
               \o <<", post_home=PostHomeMove.", "relative_move",
                    ", post_distance=", "1", ")">>) \in Range(MotorLines)
        /\ format_text(1, <<"with group(group_num=">> \o IntStr(group.group_num)
               \o <<", post_home=PostHomeMove.", "initial_position", "):">>)
               \in Range(GroupLines)

\* the post token as the traceability comment reports it: the token's text,
\* and None for raw code
TraceToken(post) ==
    IF TableRow(post) = "raw_code" THEN <<"N", "o", "n", "e">> ELSE PyStr(post)

OwnCommentLine(group) ==
    format_text(2, <<"comment(\"">> \o group.sequence.old_name \o <<"\", \"">>
                       \o TraceToken(group.post) \o <<"\")">>)

\* C6: the comment written just before each sequence invocation records the
\* group's legacy routine name and the group's own post token, whatever
\* motors the group holds.
C6_CommentHasGroupToken ==
    Generated =>
        /\ Range(CommentLines) = {OwnCommentLine(group) : group \in AllGroups}
        /\ \A i \in 1..Len(outfile) :
               IsSequenceLine(outfile[i]) => i > 1 /\ IsCommentLine(outfile[i - 1])

\* the group numbers written in the k-th plc block, in the order written
BlockGroupNumbers(k) ==
    LET lines == ChunksIn(PlcStarts[k], PlcBlockEnd(k), IsGroupLine)
    IN  [j \in 1..Len(lines) |-> GroupLineNumber(outfile[lines[j]])]

\* C7: within each plc block the groups are written in strictly ascending
\* group-number order (and all of them are), in whatever order they were
\* inserted into plc.groups.
C7_GroupsAscending ==
    Generated =>
        /\ Len(PlcStarts) = Len(instances)
        /\ \A k \in 1..Len(PlcStarts) :
            LET nums == BlockGroupNumbers(k)
            IN  /\ \A j \in 1..(Len(nums) - 1) : nums[j] < nums[j + 1]
                /\ Range(nums) = GroupKeys(instances[k])
                /\ Len(nums) = Len(instances[k].groups)

\* C7 witness: a PLC whose groups were inserted in descending order
C7_Witness ==
    /\ Generated
    /\ \E k \in 1..Len(instances) :
        /\ Len(instances[k].groups) >= 2
        /\ instances[k].groups[1].group_num > instances[k].groups[2].group_num
        /\ Len(BlockGroupNumbers(k)) >= 2
        /\ BlockGroupNumbers(k)[1] = instances[k].groups[2].group_num

\* C8: one plc block per PLC, in input order, each with its plc_num,
\* controller and filepath; a timeout argument is written if and only if the
\* PLC's timeout is not 600000, and then with that timeout.
C8_PlcBlocks ==
    Generated =>
        /\ Len(PlcStarts) = Len(instances)
        /\ \A k \in 1..Len(PlcStarts) :
            LET at == PlcStarts[k]
                plc == instances[k]
                timeouts == ChunksIn(at, PlcBlockEnd(k), IsTimeoutLine)
            IN  /\ outfile[at + 1] =
                       <<"    ", "plc_num=">> \o IntStr(plc.plc) \o <<",", "\n">>
                /\ outfile[at + 2] =
                       <<"    ", "controller=">> \o plc.bricktype \o <<",", "\n">>
                /\ outfile[at + 3] =
                       <<"    ", "filepath=\"">> \o plc.filename \o <<"\",", "\n">>
                /\ (timeouts # <<>>) <=> (plc.timeout # 600000)
                /\ plc.timeout # 600000 =>
                       /\ timeouts = <<at + 4>>
                       /\ outfile[at + 4] =
                              <<"    ", "timeout=">> \o IntStr(plc.timeout) \o <<"\n">>

\* C8 witness: two PLCs, 12 before 11, the first with the default timeout
\* and no timeout line, the second with a timeout line
C8_Witness ==
    /\ Generated
    /\ Len(instances) = 2
    /\ Len(PlcStarts) = 2
    /\ instances[1].plc = 12 /\ instances[1].timeout = 600000
    /\ instances[2].plc = 11 /\ instances[2].timeout = 1000
    /\ ~IsTimeoutLine(outfile[PlcStarts[1] + 4])
    /\ IsTimeoutLine(outfile[PlcStarts[2] + 4])

\* the names listed on an import line, split at the ", " separators
RECURSIVE SplitNames(_)
SplitNames(text) ==
    IF \E i \in 1..Len(text) : text[i] = ", "
    THEN LET i == CHOOSE i \in 1..Len(text) :
                      text[i] = ", " /\ \A j \in 1..(i - 1) : text[j] # ", "
         IN  <<SubSeq(text, 1, i - 1)>> \o SplitNames(SubSeq(text, i + 1, Len(text)))
    ELSE <<text>>

ImportedNames(chunk) == SplitNames(SubSeq(chunk, 2, Len(chunk) - 1))

ReferencedNames == {group.sequence.name : group \in AllGroups}

\* C9 as stated: make_code writes one import line per distinct sequence name.
C9_OneLinePerName == Generated => Len(ImportLines) = Cardinality(ReferencedNames)

\* C9 amended: make_code writes a single sequences import line (none when no
\* group exists) that lists the distinct sequence names referenced by the
\* groups of all PLCs in sorted order: each referenced name exactly once,
\* no other name.
C9_ImportsSortedDistinct ==
    Generated =>
        /\ Len(ImportLines) = (IF ReferencedNames = {} THEN 0 ELSE 1)
        /\ \A l \in 1..Len(ImportLines) :
            LET listed == ImportedNames(ImportLines[l])
            IN  /\ Range(listed) = ReferencedNames
                /\ \A j \in 1..(Len(listed) - 1) : StrLess(listed[j], listed[j + 1])

\* C9 witness: home_limit is used before home_hsw, home_hsw twice or more,
\* and the import line lists home_hsw, home_limit
C9_Witness ==
    /\ Generated
    /\ Len(instances) >= 1
    /\ Len(instances[1].groups) >= 1
    /\ instances[1].groups[1].sequence.name = Chars_home_limit
    /\ Cardinality({id \in GroupIds :
           instances[id[1]].groups[id[2]].sequence.name = Chars_home_hsw}) >= 2
    /\ Len(ImportLines) = 1
    /\ ImportedNames(ImportLines[1]) = <<Chars_home_hsw, Chars_home_limit>>

IsShebangLine(chunk) == AtomAt(chunk, 1, "#!/bin/env ")
IsSentinelLine(chunk) == AtomAt(chunk, 1, "# End of auto converted homing ")

\* the atoms of a chunk that end a line
LineEnds(chunk) == {i \in 1..Len(chunk) : chunk[i] = "\n"}

\* path is what "which python" printed, less the whitespace around it
IsStrippedPath(path) ==
    /\ path # <<>>
    /\ ~IsSpace(Head(path)) /\ ~IsSpace(Last(path))
    /\ \E a \in 1..Len(WhichPython) :
        /\ SubSeq(WhichPython, a, a + Len(path) - 1) = path
        /\ \A i \in 1..Len(WhichPython) :
               (i < a \/ i >= a + Len(path)) => IsSpace(WhichPython[i])

\* C11: for every registry, the empty one included, the file starts with the
\* one shebang line, "#!/bin/env " and the whitespace-stripped interpreter
\* path, ends with the one end-of-output sentinel comment, and every plc
\* block lies between the two.
C11_ShebangFirstSentinelLast ==
    Generated =>
        LET n == Len(outfile)
        IN  /\ n >= 2
            /\ ChunksIn(1, n, IsShebangLine) = <<1>>
            /\ LineEnds(outfile[1]) = {Len(outfile[1])}
            /\ IsStrippedPath(SubSeq(outfile[1], 2, Len(outfile[1]) - 1))
            /\ ChunksIn(1, n, IsSentinelLine) = <<n>>
            /\ outfile[n] = <<"# End of auto converted homing ", "definitions", "\n">>
            /\ Len(PlcStarts) = Len(instances)
            /\ \A k \in 1..Len(PlcStarts) :
                   1 < PlcStarts[k] /\ PlcStarts[k] < n

\* C11 witness: a file generated for two PLCs
C11_Witness ==
    /\ Generated
    /\ Len(instances) = 2
    /\ Len(PlcStarts) = 2
    /\ IsShebangLine(outfile[1])
    /\ IsSentinelLine(Last(outfile))

-----------------------------------------------------------------------------
(* Properties of dls_motorhome.motor.Motor, checked under SpecMotor *)

Fields == {"hi_lim", "lo_lim", "homed", "not_homed", "lim_flags", "pos"}

\* the base of each derived register, as the specification tabulates it
FIELD_BASE ==
    [f \in Fields |->
        CASE f = "hi_lim" -> 4 [] f = "lo_lim" -> 20 [] f = "homed" -> 36
          [] f = "not_homed" -> 52 [] f = "lim_flags" -> 68 [] f = "pos" -> 84]

MotorIds == 1..Len(Motor_instances)

\* C12: each of the six derived register offsets of every motor equals
\* plc_number * 100 + FIELD_BASE[field] + creation_index, the index the motor
\* was given at construction.
C12_OffsetFormula ==
    \A k \in MotorIds :
        LET motor == Motor_instances[k]
        IN  /\ motor.dict.index = motor.index
            /\ \A f \in Fields :
                   motor.dict[f] =
                       Motor_args[k].plc_num * 100 + FIELD_BASE[f] + motor.index

\* C12 witness: the second motor, made for PLC 12, has pos = 1285
C12_Witness ==
    /\ Len(Motor_instances) >= 2
    /\ Motor_args[2].plc_num = 12
    /\ Motor_instances[2].index = 1
    /\ Motor_instances[2].dict.pos = 1285
    /\ Motor_instances[2].dict.hi_lim = 1205

\* C13: for a fixed field and plc number the offset is strictly increasing in
\* the creation index, and the six offsets of one motor are pairwise distinct.
C13_OffsetsOrderedAndDistinct ==
    /\ \A j, k \in MotorIds :
           (/\ Motor_args[j].plc_num = Motor_args[k].plc_num
            /\ Motor_instances[j].index < Motor_instances[k].index)
               => \A f \in Fields :
                      Motor_instances[j].dict[f] < Motor_instances[k].dict[f]
    /\ \A k \in MotorIds : \A f, g \in Fields :
           f # g => Motor_instances[k].dict[f] # Motor_instances[k].dict[g]

\* C13 witness: two motors of PLC 11 with another PLC's motor between them
C13_Witness ==
    /\ Len(Motor_instances) = 3
    /\ Motor_args[1].plc_num = 11
    /\ Motor_args[2].plc_num = 12
    /\ Motor_args[3].plc_num = 11
    /\ Motor_instances[1].dict.homed = 1136
    /\ Motor_instances[3].dict.homed = 1138

\* the nx digits inside a motor's homed_flag entry
NxOf(motor) == SubSeq(motor.dict.homed_flag, 2, Len(motor.dict.homed_flag) - 1)

\* C14: nx is bank * 10 + position_in_bank, bank = (axis - 1) \div 4 and
\* position_in_bank = (axis - 1) % 4 + 1, as decimal digits zero-padded to
\* width 2, and the homed_flag entry is "7", nx, "2".
C14_NxAndHomedFlag ==
    \A k \in MotorIds :
        LET motor == Motor_instances[k]
            bank == (motor.axis - 1) \div 4
            position_in_bank == ((motor.axis - 1) % 4) + 1
            flag == motor.dict.homed_flag
            digits == NxOf(motor)
        IN  /\ Len(flag) >= 4
            /\ Head(flag) = "7" /\ Last(flag) = "2"
            /\ \A i \in 1..Len(digits) : IsDigit(digits[i])
            /\ ParseNat(digits) = bank * 10 + position_in_bank
            /\ Len(digits) > 2 => Head(digits) # "0"
            /\ digits = nx(motor.axis)

\* C14 witness: axis 4 gives "04" and "7042", axis 5 gives "11" and "7112"
C14_Witness ==
    /\ Len(Motor_instances) >= 2
    /\ Motor_instances[1].axis = 4
    /\ Motor_instances[1].dict.homed_flag = <<"7", "0", "4", "2">>
    /\ Motor_instances[2].axis = 5
    /\ Motor_instances[2].dict.homed_flag = <<"7", "1", "1", "2">>

\* the number a motor's nx digits read as
NxValue(motor) == ParseNat(NxOf(motor))

InAxes(motor, lo, hi) == lo <= motor.axis /\ motor.axis <= hi

\* C15 as stated: the motors of axes 1..4 all have the same nx, and it differs
\* from the nx of a motor of axes 5..8 by exactly 10.
C15_NxSameWithinBank ==
    \A j, k \in MotorIds :
        LET a == Motor_instances[j]
            b == Motor_instances[k]
        IN  /\ (InAxes(a, 1, 4) /\ InAxes(b, 1, 4)) => NxOf(a) = NxOf(b)
            /\ (InAxes(a, 1, 4) /\ InAxes(b, 5, 8)) => NxValue(b) - NxValue(a) = 10

\* C15 amended: the nx of the axes of one bank of four share the tens part,
\* the bank, and differ as the axes do (axes 1, 2, 3, 4 give 01, 02, 03, 04);
\* nx of axis + 4 exceeds nx of axis by exactly 10.
C15_NxBankShiftsByTen ==
    \A j, k \in MotorIds :
        LET a == Motor_instances[j]
            b == Motor_instances[k]
        IN  /\ (a.axis - 1) \div 4 = (b.axis - 1) \div 4 =>
                   /\ NxValue(a) \div 10 = NxValue(b) \div 10
                   /\ NxValue(b) - NxValue(a) = b.axis - a.axis
            /\ b.axis = a.axis + 4 => NxValue(b) - NxValue(a) = 10
            /\ a.axis \in 1..4 => NxOf(a) = <<"0", Digits[a.axis + 1]>>

\* C15 witness: motors of axes 1, 2 and 5 with nx 01, 02 and 11
C15_Witness ==
    /\ Len(Motor_instances) = 3
    /\ Motor_instances[1].axis = 1 /\ NxOf(Motor_instances[1]) = <<"0", "1">>
    /\ Motor_instances[2].axis = 2 /\ NxOf(Motor_instances[2]) = <<"0", "2">>
    /\ Motor_instances[3].axis = 5 /\ NxOf(Motor_instances[3]) = <<"1", "1">>

\* C16: the k-th motor constructed in the process has index k - 1, whatever
\* PLC or axis it was made for: indices are unique and strictly increasing in
\* creation order, never reset, and a motor made for an axis that already has
\* a motor is a new motor with a new index.
C16_IndexIsCreationOrder ==
    /\ Len(Motor_instances) = Len(Motor_args)
    /\ \A k \in MotorIds :
           /\ Motor_instances[k].index = k - 1
           /\ Motor_instances[k].axis = Motor_args[k].axis
    /\ \A j, k \in MotorIds :
           j < k => Motor_instances[j].index < Motor_instances[k].index

\* C16 witness: axis 2 is given a motor twice, then a motor for another PLC
C16_Witness ==
    /\ Len(Motor_instances) = 3
    /\ Motor_instances[1].axis = 2 /\ Motor_instances[1].index = 0
    /\ Motor_instances[2].axis = 2 /\ Motor_instances[2].index = 1
    /\ Motor_args[1].plc_num = 12 /\ Motor_args[3].plc_num = 11
    /\ Motor_instances[3].index = 2

-----------------------------------------------------------------------------
(* Properties of converter.file, checked under SpecFile *)

\* C17: for a non-empty list of names the script's top-level code is run once
\* per name, in list order, with the name in sys.argv when it runs; the first
\* run is an import, every later one a reload.  A run that raises ends the
\* call, so what has run is always the runs for the names taken so far.
C17_OncePerNameInOrder ==
    (file_pc # "start" /\ names.items # <<>>) =>
        /\ Len(executed) = names_iter
        /\ names_iter <= Len(names.items)
        /\ \A k \in 1..Len(executed) :
               /\ executed[k].argv = <<"exename", py_str(names.items[k])>>
               /\ executed[k].how = (IF k = 1 THEN "import" ELSE "reload")
               /\ executed[k].raised => k = Len(executed) /\ file_pc = "raised"
        /\ names_iter >= 1 => sys_argv = Last(executed).argv
        /\ file_pc = "done" => Len(executed) = Len(names.items)

\* C17 witness: two names, a str and then a Path, have both been run
C17_Witness ==
    /\ file_pc = "done"
    /\ Len(names.items) = 2
    /\ executed =
           <<[how |-> "import", raised |-> FALSE,
              argv |-> <<"exename", <<"PLCs/PLC11_A_HM.pmc">>>>],
             [how |-> "reload", raised |-> FALSE,
              argv |-> <<"exename", <<"BL01", "/", "PLCs", "/", "PLC12_B_HM.pmc">>>>]>>

\* C18: given zero names, passed in or derived, the script is run exactly
\* once, with no name.
C18_ZeroNamesRunOnce ==
    (file_pc = "done" /\ names.items = <<>>) =>
        /\ Len(executed) = 1
        /\ executed[1].argv = <<"exename">>

\* where the line that starts at s ends: its line end, or the end of the text
LineEnd(text, s) ==
    IF \E e \in s..Len(text) : text[e] = "\n"
    THEN SetMin({e \in s..Len(text) : text[e] = "\n"})
    ELSE Len(text) + 1

\* the branch heads of the line at s that no comment sign precedes
UncommentedBranches(text, s) ==
    {q \in s..(LineEnd(text, s) - 1) :
        text[q] \in BranchAtoms /\ \A i \in s..(q - 1) : text[i] # "#"}

\* the target named on each line that has an uncommented branch, in source order
RECURSIVE BranchLineTargets(_, _)
BranchLineTargets(text, s) ==
    IF s > Len(text) THEN <<>>
    ELSE (IF UncommentedBranches(text, s) = {} THEN <<>>
          ELSE <<BranchName(text[SetMax(UncommentedBranches(text, s))])>>)
             \o BranchLineTargets(text, LineEnd(text, s) + 1)

\* C19: when no names are supplied, one name is synthesized per uncommented
\* 'if name == "<m>"' line, in source order, the i-th (from 0) being
\* "PLCs/PLC<11+i>_<m>_HM.pmc".
C19_OneNamePerBranchLine ==
    [][(file_pc = "start" /\ is_empty_tuple(names)) =>
           LET targets == BranchLineTargets(filetext, 1)
           IN  /\ Len(names'.items) = Len(targets)
               /\ \A k \in 1..Len(targets) :
                      py_str(names'.items[k]) =
                          <<"PLCs/PLC">> \o NatStr(11 + (k - 1)) \o <<"_">>
                              \o targets[k] \o <<"_HM.pmc">>]_vars

-----------------------------------------------------------------------------
(* Properties of make_new_motion, checked under SpecNewMotion *)

\* a child running the legacy script ended with a non-zero exit status
IsFailedExit(event) ==
    event.ev = "exit" /\ event.script = "legacy" /\ event.returncode # 0

\* C20: once the legacy script has failed for one target, nothing more is
\* done for that script: no later target is run and the failed one is not run
\* again, make_code is not run, the new script is not run, and
\* make_new_motion does not end as if all had gone well.
C20_FailureAbortsScript ==
    /\ \A i \in 1..Len(trace) :
           IsFailedExit(trace[i]) =>
               \A j \in (i + 1)..Len(trace) :
                   trace[j].gen = trace[i].gen =>
                       trace[j].ev \notin {"spawn", "make_code"}
    /\ nm_pc = "done" => \A i \in 1..Len(trace) : ~IsFailedExit(trace[i])

-----------------------------------------------------------------------------
(* Properties of the registry across harness runs *)

\* C21: when file() reads the registry (line 112), the registry holds only
\* objects created by the runs of the script made in this call, none that an
\* earlier harness run in the process left there.
C21_RegistryIsolated ==
    file_pc = "done" =>
        \A i \in 1..Len(instances) :
            \E k \in 1..Len(executed) :
                ~executed[k].raised /\ instances[i] = ScriptPLC(executed[k].argv)

-----------------------------------------------------------------------------
(* Properties of the pipe and the children, checked under SpecNewMotion *)

\* the child of the legacy script has ended and left nothing in the pipe
EndedWithoutMessage ==
    /\ nm_pc = "wait"
    /\ process.state = "exited"
    /\ process.script = "legacy"
    /\ fifo.buf = <<>>

\* C22: when a child has ended without writing a message, the read does not
\* block and gives no message, the registry stays as it is, and make_new_motion
\* goes on to the next target.
C22_NoMessageNoBlock ==
    /\ [](EndedWithoutMessage => ENABLED collect_message)
    /\ [][EndedWithoutMessage =>
              /\ instances' = instances
              /\ plc_iter' = plc_iter + 1
              /\ nm_pc' = "loop"
              /\ fifo'.state = "open"]_vars

\* C22 witness: the first child gave its PLC, the second ended without a
\* message, and the loop is past both with the one PLC in the registry
C22_Witness ==
    /\ nm_pc = "loop"
    /\ plc_iter = 2
    /\ Len(instances) = 1
    /\ \E i \in 1..Len(trace) :
           /\ trace[i].ev = "exit" /\ trace[i].script = "legacy"
           /\ trace[i].target = 2 /\ trace[i].returncode = 1
           /\ trace[i].gen = gen_iter + 1

\* the places in the trace of the events of one kind for the g-th generator
EventsOf(g, ev, script) ==
    SelectSeq([i \in 1..Len(trace) |-> i],
              LAMBDA i : /\ trace[i].gen = g /\ trace[i].ev = ev
                         /\ trace[i].script = script)

\* what the child run for the t-th plc_file of the g-th generator wrote
Wrote(g, t) ==
    IF \E i \in 1..Len(trace) :
           /\ trace[i].gen = g /\ trace[i].ev = "exit"
           /\ trace[i].script = "legacy" /\ trace[i].target = t
           /\ trace[i].returncode = 0
    THEN ChildRegistry(generators[g].plc_files[t], t)
    ELSE <<>>

\* the capture loop of the current generator is over
LoopOver ==
    /\ nm_pc \in {"loop", "make_code", "close", "execute_new", "wait"}
    /\ plc_iter = Len(current_gen.plc_files)
    /\ process.script # "legacy"

IsPrefix(a, b) == Len(a) <= Len(b) /\ a = SubSeq(b, 1, Len(a))

\* the order of the pipe's events for the g-th generator
PipeOrder(g) ==
    LET opens == EventsOf(g, "open", "none")
        closes == EventsOf(g, "close", "none")
        spawns == EventsOf(g, "spawn", "legacy")
        exits == EventsOf(g, "exit", "legacy")
        reads == EventsOf(g, "read", "legacy")
    IN  /\ Len(opens) <= 1 /\ Len(closes) <= 1
        /\ spawns # <<>> => opens # <<>> /\ opens[1] < spawns[1]
        /\ Len(reads) <= Len(exits) /\ Len(exits) <= Len(spawns)
        /\ Len(spawns) <= Len(reads) + 1
        /\ \A t \in 1..Len(spawns) : trace[spawns[t]].target = t
        /\ \A t \in 1..Len(exits) :
               trace[exits[t]].target = t /\ spawns[t] < exits[t]
        /\ \A t \in 1..Len(reads) :
               /\ trace[reads[t]].target = t /\ exits[t] < reads[t]
               /\ t < Len(spawns) => reads[t] < spawns[t + 1]
        /\ closes # <<>> =>
               /\ Len(reads) = Len(generators[g].plc_files)
               /\ \A t \in 1..Len(reads) : reads[t] < closes[1]
               /\ opens # <<>> /\ opens[1] < closes[1]

\* C27: per generator the pipe is made and opened before the first child is
\* spawned; per target the order is spawn, exit of the child, read, append;
\* the pipe is closed only after the read for the last target; after the
\* loop the registry is what the children wrote, in target order; between
\* the clear and the code generation the registry is only appended to.
C27_PipeLifecycle ==
    /\ [](/\ \A g \in 1..Len(generators) : PipeOrder(g)
          /\ alive # {} /\ process.script = "legacy" => fifo.state = "open"
          /\ (nm_pc # "start" /\ gen_iter < Len(generators) /\ LoopOver) =>
                 instances =
                     Concat([t \in 1..Len(current_gen.plc_files) |->
                                Wrote(gen_iter + 1, t)]))
    /\ [][(nm_pc \in {"loop", "wait"} /\ process.script # "new") =>
              IsPrefix(instances, instances')]_vars

\* C27 witness: the second brick's loop is over, both children wrote, the
\* registry holds their two PLCs in target order and the pipe is closed
C27_Witness ==
    /\ ~root_gen_exists
    /\ gen_iter = 1
    /\ nm_pc = "execute_new"
    /\ fifo.state = "closed"
    /\ Len(instances) = 2
    /\ instances[1].plc = 11 /\ instances[2].plc = 12
    /\ Len(EventsOf(2, "read", "legacy")) = 2

HasShim(pypath) == \E i \in 1..Len(pypath) : pypath[i] = "converter/shim"

\* the order of capture, code generation and the run of the new script for
\* the g-th generator
GenerationOrder(g) ==
    LET captures == EventsOf(g, "spawn", "legacy")
        reads == EventsOf(g, "read", "legacy")
        makes == EventsOf(g, "make_code", "new")
        runs == EventsOf(g, "spawn", "new")
    IN  /\ Len(makes) <= 1 /\ Len(runs) <= 1
        /\ makes # <<>> =>
               /\ Len(captures) = Len(generators[g].plc_files)
               /\ Len(reads) = Len(captures)
               /\ \A t \in 1..Len(captures) :
                      captures[t] < makes[1] /\ reads[t] < makes[1]
               /\ Len(emitted) >= g
        /\ runs # <<>> =>
               /\ makes # <<>> /\ makes[1] < runs[1]
               /\ ~HasShim(trace[runs[1]].pypath)
        /\ \A t \in 1..Len(captures) : HasShim(trace[captures[t]].pypath)

\* C29: for each generator every capture run of its targets comes before the
\* code generation, and the new script is run only after make_code has
\* written it, with no shim on its search path.
C29_CaptureGenerateExecute ==
    /\ \A g \in 1..Len(generators) : GenerationOrder(g)
    /\ (process.script = "new" /\ process.state # "none") =>
           /\ Len(emitted) = gen_iter + 1
           /\ emitted[gen_iter + 1] = make_code_text(instances)

\* C29 witness: two captures, then make_code, then the new script runs
C29_Witness ==
    /\ process.script = "new" /\ process.state = "running"
    /\ Len(EventsOf(gen_iter + 1, "spawn", "legacy")) = 2
    /\ Len(EventsOf(gen_iter + 1, "make_code", "new")) = 1
    /\ Len(instances) = 2
    /\ Len(emitted) = gen_iter + 1

-----------------------------------------------------------------------------
(* Properties of many Motor objects, checked under SpecManyMotors *)

\* the fields in the order of their bases, each with the one after it
NextField ==
    [f \in Fields \ {"pos"} |->
        CASE f = "hi_lim" -> "lo_lim" [] f = "lo_lim" -> "homed"
          [] f = "homed" -> "not_homed" [] f = "not_homed" -> "lim_flags"
          [] f = "lim_flags" -> "pos"]

\* C30: the offsets are injective over (plc number, field, creation index)
\* among the motors whose index is in 0..15; the index is not bounded, and a
\* motor with index i >= 16 has, for each field but the last, the offset that
\* the motor with index i - 16 of the same PLC has for the next field.
C30_InjectiveUpToFifteen ==
    /\ \A j, k \in MotorIds : \A f, g \in Fields :
           (/\ Motor_instances[j].index <= 15
            /\ Motor_instances[k].index <= 15
            /\ <<Motor_args[j].plc_num, f, Motor_instances[j].index>>
                   # <<Motor_args[k].plc_num, g, Motor_instances[k].index>>)
               => Motor_instances[j].dict[f] # Motor_instances[k].dict[g]
    /\ \A j, k \in MotorIds :
           (/\ Motor_instances[k].index >= 16
            /\ Motor_instances[j].index = Motor_instances[k].index - 16
            /\ Motor_args[j].plc_num = Motor_args[k].plc_num)
               => \A f \in DOMAIN NextField :
                      Motor_instances[k].dict[f] =
                          Motor_instances[j].dict[NextField[f]]
    /\ \A k \in MotorIds :
           \A f \in Fields :
               Motor_instances[k].index <= 15 =>
                   /\ Motor_instances[k].dict[f] >= Motor_args[k].plc_num * 100 + 4
                   /\ Motor_instances[k].dict[f] <= Motor_args[k].plc_num * 100 + 99

\* C30 witness: the seventeenth motor, index 16, of PLC 11 has for hi_lim the
\* offset 1120 that the first motor has for lo_lim
C30_Witness ==
    /\ Len(Motor_instances) >= 17
    /\ Motor_args[1].plc_num = 11 /\ Motor_args[17].plc_num = 11
    /\ Motor_instances[17].index = 16
    /\ Motor_instances[17].dict.hi_lim = 1120
    /\ Motor_instances[1].dict.lo_lim = 1120

-----------------------------------------------------------------------------
(* Properties of the working copies and of check_matches, checked under SpecArea *)

CheckReported == area_pc \in {"reported", "commanded", "returned", "AssertionError"}
CheckEnded == area_pc \in {"returned", "AssertionError"}

\* the homing PLC files under the old working copy, and those of them whose
\* counterpart under the new one is missing or differs
OldHomePlcs == {rel \in AreaPaths : exists(fs.old_motion, rel) /\ find_auto_home_plcs(rel)}
Differs(rel) ==
    \/ ~exists(fs.new_motion, rel)
    \/ diff_bB(fs.old_motion[rel], fs.new_motion[rel]) = 1
Mismatched == {rel \in OldHomePlcs : Differs(rel)}
PathPair(rel) == [old |-> AbsPath("old_motion", rel), new |-> AbsPath("new_motion", rel)]
Reports == {i \in DOMAIN log : log[i].kind \in {"Success", "Failure"}}

\* C23: once check_matches has reported, count is the number of homing PLC
\* files under the old copy, mismatches the number of them whose file at the
\* same relative path under the new copy differs or is missing, the listing
\* holds exactly the (old, new) pairs of those, once each, the report states
\* mismatches and count, and check_matches ends in the assertion error if and
\* only if mismatches > 0.
C23_CountsMismatchesAndFailure ==
    /\ CheckReported =>
        /\ cm.count = Cardinality(OldHomePlcs)
        /\ cm.mismatches = Cardinality(Mismatched)
        /\ Range(cm.mismatch) = {PathPair(rel) : rel \in Mismatched}
        /\ Len(cm.mismatch) = cm.mismatches
        /\ Cardinality(Reports) = 1
        /\ \A i \in Reports :
            /\ log[i].mismatches = cm.mismatches
            /\ log[i].count = cm.count
            /\ log[i].kind = "Failure" <=> cm.mismatches > 0
            /\ log[i].kind = "Failure" =>
                   /\ i < Len(log)
                   /\ log[i + 1].kind = "mismatch"
                   /\ log[i + 1].lines = cm.mismatch
    /\ area_pc = "AssertionError" => cm.mismatches > 0
    /\ area_pc = "returned" => cm.mismatches = 0

\* C23 witness: two old files were compared; the counterpart of one differs in
\* white space only, that of the other is missing; 1 of 2 is reported and the
\* assertion fails
C23_Witness ==
    /\ area_pc = "AssertionError"
    /\ cm.count = 2 /\ cm.mismatches = 1
    /\ \E rel \in OldHomePlcs : ~exists(fs.new_motion, rel)
    /\ \E rel \in OldHomePlcs :
        /\ exists(fs.new_motion, rel)
        /\ fs.new_motion[rel].text # fs.old_motion[rel].text
        /\ ~Differs(rel)

CopyCommands == {j \in DOMAIN log : log[j].kind = "copy"}
NewGenerators == glob(fs.new_motion, {rel \in AreaPaths : brick_generators(rel)})

\* C24: whenever check_matches is about to assert or has ended, with or
\* without mismatches, the report and after it the copy command have been
\* logged; when copy_new_gen is a list the command has one line per generator
\* of the new copy, each pairing the new script written in a brick folder of
\* new_motion with configure/motorhome.py of the same brick folder under
\* original_path.
C24_ReportAndCommandBeforeAssert ==
    (area_pc = "commanded" \/ CheckEnded) =>
        /\ Cardinality(CopyCommands) = 1
        /\ \A j \in CopyCommands :
            /\ \E i \in Reports : i < j
            /\ copy_new_gen.is_list =>
                /\ Len(log[j].lines) = Cardinality(NewGenerators)
                /\ \A gen \in NewGenerators :
                       \E k \in DOMAIN log[j].lines :
                           log[j].lines[k].new.rel = parent(parent(gen)) \o new_script_path
                /\ \A k \in DOMAIN log[j].lines :
                    /\ log[j].lines[k].new.root = "new_motion"
                    /\ log[j].lines[k].old.root = "original"
                    /\ log[j].lines[k].old.rel = log[j].lines[k].new.rel
                    /\ exists(fs.new_motion, log[j].lines[k].new.rel)
                    /\ fs.new_motion[log[j].lines[k].new.rel].origin = "run"

\* C24 witness: with two per brick generators and a mismatch, the assertion
\* has failed after a copy command of two lines
C24_Witness ==
    /\ area_pc = "AssertionError"
    /\ copy_new_gen.is_list
    /\ Cardinality(NewGenerators) = 2
    /\ \E j \in CopyCommands : Len(log[j].lines) = 2 /\ log[j].mismatches > 0

\* the auto-generated homing PLC files: PLCs/PLC<n>_<x>_HM.pmc in a folder
HomingPlcFile(rel) ==
    /\ Len(rel) >= 2
    /\ rel[Len(rel) - 1] = Dir("PLCs")
    /\ Len(Last(rel)) = 5
    /\ Last(rel)[1] = "PLC" /\ Last(rel)[4] = "_HM" /\ Last(rel)[5] = ".pmc"
HomingPlcsIn(tree) == {rel \in AreaPaths : exists(tree, rel) /\ HomingPlcFile(rel)}
WrittenInRun(tree) == {rel \in AreaPaths : tree[rel].origin = "run"}
CheckRuns ==
    area_pc \in {"new_made", "compare", "reported", "commanded", "returned",
                 "AssertionError"}

\* C25: after staging and removal a working copy holds no homing PLC file; a
\* generator execution writes into a copy only when no homing PLC file of
\* the source tree is left in it; and while check_matches runs every homing
\* PLC file in either copy was written in this run.
C25_NoStaleHomingPlc ==
    /\ [](area_pc = "old_clean" => HomingPlcsIn(fs.old_motion) = {})
    /\ [](area_pc = "new_clean" => HomingPlcsIn(fs.new_motion) = {})
    /\ [](CheckRuns =>
            \A root \in {"old_motion", "new_motion"} :
                HomingPlcsIn(fs[root]) \subseteq WrittenInRun(fs[root]))
    /\ [][\A root \in {"old_motion", "new_motion"} :
              WrittenInRun(fs'[root]) # WrittenInRun(fs[root]) =>
                  \A rel \in HomingPlcsIn(fs[root]) : fs[root][rel].origin = "run"]_vars

\* C25 witness: check_matches runs on copies of a tree that held a homing PLC
\* file; in both copies the file at that path was written in this run, with
\* another text
C25_Witness ==
    /\ area_pc = "compare"
    /\ \E rel \in AreaPaths :
        /\ HomingPlcFile(rel)
        /\ fs.original[rel].origin = "source"
        /\ fs.old_motion[rel].origin = "run"
        /\ fs.new_motion[rel].origin = "run"
        /\ fs.old_motion[rel].text # fs.original[rel].text

Selected == {rel \in AreaPaths : exists(fs.original, rel) /\ copytree_patterns(rel)}
StagedAs(tree) ==
    \A rel \in AreaPaths :
        /\ rel \in Selected \ copy_failed => tree[rel] = fs.original[rel]
        /\ rel \notin Selected \ copy_failed => ~exists(tree, rel)

\* C26: when copytree has returned, with or without a copy that raised, every
\* *.pmc and generate_homing_plcs.py file of the source tree but the one
\* whose copy raised is in the working copy at the same relative path with
\* the same text, and nothing else is.
C26_CopyFailureSkipsOneFile ==
    /\ area_pc = "old_copied" => StagedAs(fs.old_motion)
    /\ area_pc = "new_copied" => StagedAs(fs.new_motion)
    /\ Cardinality(copy_failed) <= 1
    /\ copy_failed \subseteq Selected

\* C26 witness: copytree has returned after the copy of one Master.pmc raised;
\* the other Master.pmc and the generator are in the copy
C26_Witness ==
    /\ area_pc = "new_copied"
    /\ copy_failed = {MasterPath(BrickFolders[1])}
    /\ exists(fs.new_motion, MasterPath(BrickFolders[2]))
    /\ exists(fs.new_motion, script_path)
    /\ ~exists(fs.new_motion, MasterPath(BrickFolders[1]))

-----------------------------------------------------------------------------
(* What check_matches looks at, checked under SpecArea *)

\* the homing PLC files that are under the new working copy only
NewOnlyHomePlcs == HomingPlcsIn(fs.new_motion) \ HomingPlcsIn(fs.old_motion)
Compared == HomingPlcsIn(fs.old_motion) \ cm.plcs

\* C31: check_matches goes through the homing PLC files of the old working
\* copy and no others: what is left to compare, what is counted and what is
\* listed are files under old_motion, a file that is under new_motion only is
\* never among them, and when old_motion holds no homing PLC file the report
\* is "Success: 0 of 0" and check_matches returns without an assertion error.
C31_OnlyOldFilesDecide ==
    /\ area_pc \in {"compare"} \cup {"reported", "commanded", "returned", "AssertionError"} =>
        /\ cm.plcs \subseteq HomingPlcsIn(fs.old_motion)
        /\ cm.plcs \cap NewOnlyHomePlcs = {}
        /\ cm.count = Cardinality(Compared)
        /\ \A k \in DOMAIN cm.mismatch :
            /\ cm.mismatch[k].old.rel \in HomingPlcsIn(fs.old_motion)
            /\ cm.mismatch[k].old.rel \notin NewOnlyHomePlcs
    /\ (CheckReported /\ HomingPlcsIn(fs.old_motion) = {}) =>
        /\ cm.count = 0 /\ cm.mismatches = 0
        /\ \A i \in Reports :
               log[i].kind = "Success" /\ log[i].mismatches = 0 /\ log[i].count = 0
        /\ Reports # {}
        /\ area_pc # "AssertionError"

\* C31 witness: the generators had plc_files to write, no execution for the
\* old copy wrote one, the new copy holds a homing PLC file; check_matches
\* has returned after "Success: 0 of 0"
C31_Witness ==
    /\ area_pc = "returned"
    /\ plc_files(fs.old_motion) # {}
    /\ HomingPlcsIn(fs.old_motion) = {}
    /\ NewOnlyHomePlcs # {}
    /\ \E i \in Reports : log[i].kind = "Success" /\ log[i].count = 0

-----------------------------------------------------------------------------
(* Termination of make_new_motion, checked under SpecNewMotionFair *)

\* the running child has more to print than its stdout pipe holds, or a
\* message that does not fit in the named pipe
Oversized ==
    /\ process.state = "running"
    /\ \/ child_io.stdout_todo + child_io.stdout_used > PipeCapacity
       \/ child_io.msg_todo + FifoUsed(child_io) > PipeCapacity

\* C32: under fairness a running child whose output and message fit in the
\* pipes exits, and make_new_motion comes to its end, past every read, close
\* and make_code, unless some child's output or message does not fit; a
\* child whose output or message does not fit never exits and the
\* orchestrator stays in process.wait().
C32_CaptureLoopFinishesIfOutputFits ==
    /\ (process.state = "running" /\ ~Oversized) ~> (process.state = "exited")
    /\ <>(nm_pc = "done" \/ Oversized)
    /\ [][Oversized => (nm_pc = "wait" /\ nm_pc' = "wait" /\ Oversized')]_vars

\* C32 witness: a legacy child has exited after it filled its stdout pipe and
\* put a message as large as the named pipe in it
C32_Witness ==
    /\ process.state = "exited"
    /\ process.script = "legacy"
    /\ child_io.stdout_used = PipeCapacity
    /\ child_io.fifo_sizes = <<PipeCapacity>>
    /\ fifo.buf # <<>>

=============================================================================
